---- MODULE Spec2Model ----
(***************************************************************************)
(* Verification model of pygeode's streaming reductions:                   *)
(*   reduce.py  - ReducedVar and its subclasses (sum, mean, min, max,      *)
(*                variance, stdev, weighted and NaN-aware variants) and    *)
(*                the factory functions sum / nansum / mean / nanmean;     *)
(*   climat.py  - loopover, TimeOp, Mean, Trend, from_trend, detrend;      *)
(*   var.py     - Var.getweights, Var.load.                                *)
(*                                                                         *)
(* Numbers.  An array element is a record [k, n, d]:                       *)
(*   k = "num"  the rational n/d in lowest terms, d > 0;                   *)
(*   k = "nan"  IEEE NaN;   k = "inf"  +inf (n = 1) or -inf (n = -1).      *)
(* Floating arithmetic is modelled exactly (no rounding); integer dtypes   *)
(* keep Python 2 / numpy integer division (floor, x/0 = 0).                *)
(***************************************************************************)
EXTENDS Integers, Sequences, FiniteSets, TLC

(***************************************************************************)
(* Bounds of the model.                                                    *)
(***************************************************************************)
MaxLen == 2      \* longest reduced axis of the enumerated input arrays
MaxVal == 0      \* array elements are drawn from -1 .. MaxVal (and NaN)
MaxT   == 3      \* time steps of the enumerated time axes are 0 .. MaxT
MaxPeriod == 2   \* a year of an enumerated time axis has 1 .. MaxPeriod steps
MaxMem == 3      \* the memory budget: the elements one piece of a view may hold

NAxes == 3       \* every modelled variable has three axes (some of length 1)

(***************************************************************************)
(* Scalar arithmetic                                                       *)
(***************************************************************************)
Abs(x) == IF x < 0 THEN -x ELSE x

RECURSIVE GCD(_, _)
GCD(a, b) == IF b = 0 THEN a ELSE GCD(b, a % b)

\* Python / numpy integer floor division; numpy yields 0 for x / 0.
FloorDiv(a, b) ==
  IF b = 0 THEN 0
  ELSE IF b > 0 THEN a \div b
  ELSE (-a) \div (-b)

NaN  == [k |-> "nan", n |-> 0, d |-> 1]
PInf == [k |-> "inf", n |-> 1, d |-> 1]
NInf == [k |-> "inf", n |-> -1, d |-> 1]
Num(i) == [k |-> "num", n |-> i, d |-> 1]

\* the rational n/d (d # 0) in lowest terms
Rat(n, d) ==
  LET g == GCD(Abs(n), Abs(d))
      s == IF d < 0 THEN -1 ELSE 1
  IN  [k |-> "num", n |-> (s * n) \div g, d |-> (s * d) \div g]

IsNaN(a) == a.k = "nan"
IsNum(a) == a.k = "num"
Sign(a)  == IF a.n > 0 THEN 1 ELSE IF a.n < 0 THEN -1 ELSE 0

\* IEEE addition
FAdd(a, b) ==
  IF IsNaN(a) \/ IsNaN(b) THEN NaN
  ELSE IF a.k = "inf" /\ b.k = "inf" THEN (IF a.n = b.n THEN a ELSE NaN)
  ELSE IF a.k = "inf" THEN a
  ELSE IF b.k = "inf" THEN b
  ELSE Rat(a.n * b.d + b.n * a.d, a.d * b.d)

FNeg(a) == IF IsNum(a) THEN [a EXCEPT !.n = -a.n]
           ELSE IF a.k = "inf" THEN [a EXCEPT !.n = -a.n] ELSE NaN

FSub(a, b) == FAdd(a, FNeg(b))

\* IEEE multiplication
FMul(a, b) ==
  IF IsNaN(a) \/ IsNaN(b) THEN NaN
  ELSE IF a.k = "inf" \/ b.k = "inf"
       THEN (IF Sign(a) * Sign(b) = 0 THEN NaN
             ELSE IF Sign(a) * Sign(b) > 0 THEN PInf ELSE NInf)
  ELSE Rat(a.n * b.n, a.d * b.d)

\* IEEE (true) division: x/0 is +-inf, 0/0 is NaN
FDiv(a, b) ==
  IF IsNaN(a) \/ IsNaN(b) THEN NaN
  ELSE IF a.k = "inf" /\ b.k = "inf" THEN NaN
  ELSE IF a.k = "inf" THEN (IF Sign(b) >= 0 THEN a ELSE FNeg(a))
  ELSE IF b.k = "inf" THEN Num(0)
  ELSE IF b.n = 0
       THEN (IF a.n = 0 THEN NaN ELSE IF a.n > 0 THEN PInf ELSE NInf)
  ELSE Rat(a.n * b.d, a.d * b.n)

\* a < b ; every comparison with NaN is false
FLt(a, b) ==
  IF IsNaN(a) \/ IsNaN(b) THEN FALSE
  ELSE IF a.k = "inf" THEN a.n < 0 /\ ~(b.k = "inf" /\ b.n < 0)
  ELSE IF b.k = "inf" THEN b.n > 0
  ELSE a.n * b.d < b.n * a.d

FLe(a, b) == ~IsNaN(a) /\ ~IsNaN(b) /\ ~FLt(b, a)

\* the division an array of the given dtype performs in Python 2:
\* true division for floating dtypes, floor division for integer dtypes
Div(dtype, a, b) ==
  IF dtype = "float" THEN FDiv(a, b)
  ELSE Num(FloorDiv(a.n, b.n))

\* numpy.sqrt: NaN for NaN and for negative arguments; an irrational root is
\* kept symbolically as [k |-> "sqrt"] of its radicand n/d
NpSqrt(a) ==
  IF IsNaN(a) THEN NaN
  ELSE IF a.k = "inf" THEN (IF a.n > 0 THEN PInf ELSE NaN)
  ELSE IF a.n < 0 THEN NaN
  ELSE IF a.n = 0 THEN Num(0)
  ELSE [k |-> "sqrt", n |-> a.n, d |-> a.d]

\* numpy.minimum / numpy.maximum of two elements (NaN propagates)
NpMinimum(a, b) == IF IsNaN(a) \/ IsNaN(b) THEN NaN ELSE IF FLt(b, a) THEN b ELSE a
NpMaximum(a, b) == IF IsNaN(a) \/ IsNaN(b) THEN NaN ELSE IF FLt(a, b) THEN b ELSE a

\* numpy.nansum([a, b], 0) of the numpy the module was written for: NaN is
\* skipped, and the sum of nothing but NaN is NaN (reduce.py seeds its
\* accumulators with NaN and relies on this to mask empty positions)
NpNanSum2(a, b) ==
  IF IsNaN(a) THEN b ELSE IF IsNaN(b) THEN a ELSE FAdd(a, b)

(***************************************************************************)
(* Arrays: functions from positions (tuples of NAxes indices) to elements  *)
(***************************************************************************)
AllAxes == 1 .. NAxes

AllPos(shape) ==
  {<<i, j, k>> : i \in 1 .. shape[1], j \in 1 .. shape[2], k \in 1 .. shape[3]}

\* the position of the reduced output that an input position contributes to
\* (reduced axes are dropped: their index is written 0)
Proj(p, indices) == [a \in AllAxes |-> IF a \in indices THEN 0 ELSE p[a]]

OutRange(shape, indices, a) == IF a \in indices THEN {0} ELSE 1 .. shape[a]

OutPos(shape, indices) ==
  {<<i, j, k>> : i \in OutRange(shape, indices, 1),
                 j \in OutRange(shape, indices, 2),
                 k \in OutRange(shape, indices, 3)}

\* a rectangular chunk with corners lo and hi
Box(lo, hi) ==
  {<<i, j, k>> : i \in lo[1] .. hi[1], j \in lo[2] .. hi[2], k \in lo[3] .. hi[3]}

\* the elements of a chunk that land on output position q
Cell(chunk, indices, q) == {p \in chunk : Proj(p, indices) = q}

\* pygeode.tools.npsum: the plain sum over the reduced axes (NaN propagates)
RECURSIVE npsum(_, _)
npsum(f, S) ==
  IF S = {} THEN Num(0)
  ELSE LET p == CHOOSE x \in S : TRUE
       IN  FAdd(f[p], npsum(f, S \ {p}))

\* pygeode.tools.npnansum: the sum over the reduced axes skipping NaN; a
\* slice holding nothing but NaN sums to NaN
RECURSIVE npnansum(_, _)
npnansum(f, S) ==
  IF S = {} THEN NaN
  ELSE LET p == CHOOSE x \in S : TRUE
       IN  NpNanSum2(f[p], npnansum(f, S \ {p}))

\* pygeode.tools.npmin / npmax over the reduced axes
RECURSIVE npmin(_, _)
npmin(f, S) ==
  IF S = {} THEN PInf
  ELSE LET p == CHOOSE x \in S : TRUE
       IN  NpMinimum(f[p], npmin(f, S \ {p}))

RECURSIVE npmax(_, _)
npmax(f, S) ==
  IF S = {} THEN NInf
  ELSE LET p == CHOOSE x \in S : TRUE
       IN  NpMaximum(f[p], npmax(f, S \ {p}))

RECURSIVE Product(_, _)
Product(shape, S) ==
  IF S = {} THEN 1
  ELSE LET a == CHOOSE x \in S : TRUE
       IN  shape[a] * Product(shape, S \ {a})

(***************************************************************************)
(* Variables (Var) and weights                                             *)
(*   var  = [shape, dtype, values, wts]: wts[a] is the 'weights' auxiliary *)
(*          array of axis a, or << >> when axis a carries none             *)
(*   a weights variable is [axes, vec]: defined on the axes in 'axes', its *)
(*   value the product of vec[a][index along a] (the outer product vprod)  *)
(***************************************************************************)
NoVec == [a \in AllAxes |-> << >>]

ScalarW == [axes |-> {}, vec |-> NoVec]     \* Var(axes=[], values=1.0)

\* the value of weights variable w at (the broadcast) position p
RECURSIVE WProd(_, _, _)
WProd(w, p, S) ==
  IF S = {} THEN 1
  ELSE LET a == CHOOSE x \in S : TRUE
       IN  w.vec[a][p[a]] * WProd(w, p, S \ {a})

\* (the entries of vec are integers; a weights variable with a field den
\* holds the values vec / den)
WAt(w, p) ==
  IF "den" \in DOMAIN w THEN Rat(WProd(w, p, w.axes), w.den)
  ELSE Num(WProd(w, p, w.axes))

\* Var.getweights(iaxes)
getweights(v, iaxes) ==
  LET axes == IF iaxes = {} THEN AllAxes ELSE iaxes
      wt   == {a \in axes : v.wts[a] # << >>}
  IN  IF wt = {} THEN ScalarW
      ELSE [axes |-> wt, vec |-> [a \in AllAxes |-> IF a \in wt THEN v.wts[a] ELSE << >>]]

(***************************************************************************)
(* ReducedVar: construction                                                *)
(***************************************************************************)
WeightedClasses ==
  {"WeightedSumVar", "WeightedNANSumVar", "WeightedMeanVar", "WeightedNANMeanVar"}

\* (mutant: N counts the whole variable, not the reduced axes only)
ReducedVar_initSizeMutant(type, v, indices) ==
  [cls |-> type, indices |-> indices, N |-> Product(v.shape, AllAxes),
   dtype |-> v.dtype, mweights |-> ScalarW, err |-> indices = {}]

\* ReducedVar.__init__: the sorted reduction indices and N, the number of
\* values reduced into one output position
ReducedVar_init(type, v, indices) ==
  [cls |-> type, indices |-> indices, N |-> Product(v.shape, indices),
   dtype |-> v.dtype, mweights |-> ScalarW, err |-> indices = {}]

\* (mutant: the assertion on the axes of the weights is missing)
Weighted_initNoAssertMutant(type, v, indices, weights) ==
  LET base == ReducedVar_init(type, v, indices)
  IN  [base EXCEPT !.mweights = weights]

\* Weighted*Var.__init__: the weights must be defined on reduced axes only
Weighted_init(type, v, indices, weights) ==
  LET base  == ReducedVar_init(type, v, indices)
      raxes == base.indices
  IN  [base EXCEPT !.mweights = weights,
                   !.err = base.err \/ ~(weights.axes \subseteq raxes)]

\* ReducedVar.__new__: with no indices the whole domain is reduced and the
\* scalar is computed at once; otherwise a node is returned
ReducedVar_new(type, v, indices, weights) ==
  LET ind  == IF indices = {} THEN AllAxes ELSE indices
      self == IF type \in WeightedClasses
              THEN Weighted_init(type, v, ind, weights)
              ELSE ReducedVar_init(type, v, ind)
  IN  [cls |-> self.cls, indices |-> self.indices, N |-> self.N,
       dtype |-> self.dtype, mweights |-> self.mweights, err |-> self.err,
       scalar  |-> indices = {}]

(***************************************************************************)
(* The factory functions of reduce.py                                      *)
(*   a call is [func, axes, weights]; weights is the keyword argument:     *)
(*   [tag |-> "absent" | "True" | "False" | "None" | "Var", w |-> ...]     *)
(***************************************************************************)
Kw(tag) == [tag |-> tag, w |-> ScalarW]
KwVar(w) == [tag |-> "Var", w |-> w]

\* the shared tail of sum / nansum / mean / nanmean: resolve weights=True to
\* the default weights, then pick the unweighted or the weighted class
Pick(v, axes, weights, plain, weighted) ==
  LET wts == IF weights.tag = "True" THEN KwVar(getweights(v, axes)) ELSE weights
  IN  IF wts.tag = "False" \/ wts.tag = "None" \/ wts.w.axes = {}
      THEN ReducedVar_new(plain, v, axes, ScalarW)
      ELSE ReducedVar_new(weighted, v, axes, wts.w)

\* weights = kwargs.pop('weights', <default>)
Pop(kw, default) == IF kw.tag = "absent" THEN Kw(default) ELSE kw

sum(v, axes, kw)     == Pick(v, axes, Pop(kw, "False"), "SumVar", "WeightedSumVar")
nansum(v, axes, kw)  == Pick(v, axes, Pop(kw, "True"), "NANSumVar", "WeightedNANSumVar")
mean(v, axes, kw)    == Pick(v, axes, Pop(kw, "True"), "MeanVar", "WeightedMeanVar")
nanmean(v, axes, kw) == Pick(v, axes, Pop(kw, "True"), "NANMeanVar", "WeightedNANMeanVar")

WeightedFuncs == {"sum", "nansum", "mean", "nanmean"}
PlainFuncs == {"min", "max", "variance", "stdev", "nanvariance", "nanstdev"}

\* min, max, variance, stdev, nanvariance, nanstdev
PlainClass(func) ==
  CASE func = "min" -> "MinVar"
    [] func = "max" -> "MaxVar"
    [] func = "variance" -> "VarianceVar"
    [] func = "stdev" -> "SDVar"
    [] func = "nanvariance" -> "NANVarianceVar"
    [] func = "nanstdev" -> "NANSDVar"

Apply(c, v) ==
  CASE c.func = "sum" -> sum(v, c.axes, c.weights)
    [] c.func = "nansum" -> nansum(v, c.axes, c.weights)
    [] c.func = "mean" -> mean(v, c.axes, c.weights)
    [] c.func = "nanmean" -> nanmean(v, c.axes, c.weights)
    [] OTHER -> ReducedVar_new(PlainClass(c.func), v, c.axes, ScalarW)

(***************************************************************************)
(* getview: accumulator arrays, the per-chunk update, the finalize step    *)
(***************************************************************************)
Zeros(Q) == [q \in Q |-> Num(0)]               \* np.zeros(view.shape, dtype)
NaNsZeroMutant(Q) == [q \in Q |-> Num(0)]      \* (mutant: the "*np.nan" forgotten)
NaNs(Q)  == [q \in Q |-> NaN]                  \* np.zeros(view.shape, dtype)*np.nan

\* arrays computed from one chunk of data ("indata") and weights ("inw")
InData(v, chunk)  == [p \in chunk |-> v.values[p]]
Squares(f)        == [p \in DOMAIN f |-> FMul(f[p], f[p])]                 \* indata**2
Mask(f)           == [p \in DOMAIN f |-> FAdd(Num(1), FMul(f[p], Num(0)))] \* 1. + indata*0.
Weighted(f, w)    == [p \in DOMAIN f |-> FMul(f[p], WAt(w, p))]            \* indata * inw
WeightMask(f, w)  == [p \in DOMAIN f |-> FAdd(WAt(w, p), FMul(f[p], Num(0)))] \* inw + indata*0.

\* (mutant: the chunk's sum is stored, not added)
AccSumAssignMutant(out, f, indices) ==
  [q \in DOMAIN out |->
     IF Cell(DOMAIN f, indices, q) = {} THEN out[q]
     ELSE npsum(f, Cell(DOMAIN f, indices, q))]

\* out[outsl] += npsum(f, self.indices)
AccSum(out, f, indices) ==
  [q \in DOMAIN out |->
     IF Cell(DOMAIN f, indices, q) = {} THEN out[q]
     ELSE FAdd(out[q], npsum(f, Cell(DOMAIN f, indices, q)))]

\* out[outsl] = np.nansum([out[outsl], npnansum(f, self.indices)], 0)
AccNanSum(out, f, indices) ==
  [q \in DOMAIN out |->
     IF Cell(DOMAIN f, indices, q) = {} THEN out[q]
     ELSE NpNanSum2(out[q], npnansum(f, Cell(DOMAIN f, indices, q)))]

\* out[outsl] = np.minimum(out[outsl], npmin(indata, self.indices))
AccMin(out, f, indices) ==
  [q \in DOMAIN out |->
     IF Cell(DOMAIN f, indices, q) = {} THEN out[q]
     ELSE NpMinimum(out[q], npmin(f, Cell(DOMAIN f, indices, q)))]

\* out[outsl] = np.maximum(out[outsl], npmax(indata, self.indices))
AccMax(out, f, indices) ==
  [q \in DOMAIN out |->
     IF Cell(DOMAIN f, indices, q) = {} THEN out[q]
     ELSE NpMaximum(out[q], npmax(f, Cell(DOMAIN f, indices, q)))]

\* WeightedMeanVar: inw.size, the sum of inw, and the factor f of one chunk
InwPos(chunk, w) == {Proj(p, AllAxes \ w.axes) : p \in chunk}
InwSum(chunk, w) == npsum([p \in InwPos(chunk, w) |-> WAt(w, p)], InwPos(chunk, w))
OutSl(chunk, indices) == {Proj(p, indices) : p \in chunk}
BroadcastFactorOneMutant(chunk, w, indices) == 1   \* (mutant: f left out)

BroadcastFactor(chunk, w, indices) ==
  FloorDiv(Cardinality(chunk),
           Cardinality(InwPos(chunk, w)) * Cardinality(OutSl(chunk, indices)))

\* W[outsl] += npsum(inw, self.indices) * f
AccWeights(W, chunk, w, indices) ==
  [q \in DOMAIN W |->
     IF q \in OutSl(chunk, indices)
     THEN FAdd(W[q], FMul(InwSum(chunk, w), Num(BroadcastFactor(chunk, w, indices))))
     ELSE W[q]]

\* the accumulators a class creates before its loop
StartAcc(node, Q) ==
  CASE node.cls = "MinVar" -> [out |-> [q \in Q |-> PInf]]
    [] node.cls = "MaxVar" -> [out |-> [q \in Q |-> NInf]]
    [] node.cls \in {"SumVar", "WeightedSumVar", "MeanVar"} -> [out |-> Zeros(Q)]
    [] node.cls \in {"NANSumVar", "WeightedNANSumVar"} -> [out |-> NaNs(Q)]
    [] node.cls = "WeightedMeanVar" -> [out |-> Zeros(Q), W |-> Zeros(Q)]
    [] node.cls = "NANMeanVar" -> [out |-> NaNs(Q), N |-> NaNs(Q)]
    [] node.cls = "WeightedNANMeanVar" -> [out |-> NaNs(Q), W |-> NaNs(Q)]
    [] node.cls \in {"VarianceVar", "SDVar"} -> [x |-> Zeros(Q), x2 |-> Zeros(Q)]
    [] node.cls \in {"NANVarianceVar", "NANSDVar"} ->
         [x |-> NaNs(Q), x2 |-> NaNs(Q), N |-> NaNs(Q)]

\* the body of the loop over loopover's chunks, per class
MinVar_step(a, node, v, chunk) ==
  [out |-> AccMin(a.out, InData(v, chunk), node.indices)]

MaxVar_step(a, node, v, chunk) ==
  [out |-> AccMax(a.out, InData(v, chunk), node.indices)]

SumVar_step(a, node, v, chunk) ==
  [out |-> AccSum(a.out, InData(v, chunk), node.indices)]

WeightedSumVar_step(a, node, v, chunk) ==
  [out |-> AccSum(a.out, Weighted(InData(v, chunk), node.mweights), node.indices)]

NANSumVar_step(a, node, v, chunk) ==
  [out |-> AccNanSum(a.out, InData(v, chunk), node.indices)]

WeightedNANSumVar_step(a, node, v, chunk) ==
  [out |-> AccNanSum(a.out, Weighted(InData(v, chunk), node.mweights), node.indices)]

MeanVar_step(a, node, v, chunk) ==
  [out |-> AccSum(a.out, InData(v, chunk), node.indices)]

\* an in-place update of an array of the given dtype: what is added to an
\* integer array is cut to an integer, towards zero
Cast(dtype, x) ==
  IF dtype = "int" /\ x.k = "num"
  THEN Num(IF x.n >= 0 THEN x.n \div x.d ELSE -((-x.n) \div x.d))
  ELSE x

CastAll(dtype, f) == [q \in DOMAIN f |-> Cast(dtype, f[q])]

\* out and W are np.zeros(view.shape, self.dtype)
WeightedMeanVar_step(a, node, v, chunk) ==
  [out |-> CastAll(node.dtype,
                   AccSum(a.out, Weighted(InData(v, chunk), node.mweights), node.indices)),
   W   |-> CastAll(node.dtype, AccWeights(a.W, chunk, node.mweights, node.indices))]

NANMeanVar_step(a, node, v, chunk) ==
  [out |-> AccNanSum(a.out, InData(v, chunk), node.indices),
   N   |-> AccNanSum(a.N, Mask(InData(v, chunk)), node.indices)]

WeightedNANMeanVar_step(a, node, v, chunk) ==
  [out |-> AccNanSum(a.out, Weighted(InData(v, chunk), node.mweights), node.indices),
   W   |-> AccNanSum(a.W, WeightMask(InData(v, chunk), node.mweights), node.indices)]

VarianceVar_step(a, node, v, chunk) ==
  [x  |-> AccSum(a.x, InData(v, chunk), node.indices),
   x2 |-> AccSum(a.x2, Squares(InData(v, chunk)), node.indices)]

NANVarianceVar_step(a, node, v, chunk) ==
  [x  |-> AccNanSum(a.x, InData(v, chunk), node.indices),
   x2 |-> AccNanSum(a.x2, Squares(InData(v, chunk)), node.indices),
   N  |-> AccNanSum(a.N, Mask(InData(v, chunk)), node.indices)]

Step(a, node, v, chunk) ==
  CASE node.cls = "MinVar" -> MinVar_step(a, node, v, chunk)
    [] node.cls = "MaxVar" -> MaxVar_step(a, node, v, chunk)
    [] node.cls = "SumVar" -> SumVar_step(a, node, v, chunk)
    [] node.cls = "WeightedSumVar" -> WeightedSumVar_step(a, node, v, chunk)
    [] node.cls = "NANSumVar" -> NANSumVar_step(a, node, v, chunk)
    [] node.cls = "WeightedNANSumVar" -> WeightedNANSumVar_step(a, node, v, chunk)
    [] node.cls = "MeanVar" -> MeanVar_step(a, node, v, chunk)
    [] node.cls = "WeightedMeanVar" -> WeightedMeanVar_step(a, node, v, chunk)
    [] node.cls = "NANMeanVar" -> NANMeanVar_step(a, node, v, chunk)
    [] node.cls = "WeightedNANMeanVar" -> WeightedNANMeanVar_step(a, node, v, chunk)
    [] node.cls \in {"VarianceVar", "SDVar"} -> VarianceVar_step(a, node, v, chunk)
    [] node.cls \in {"NANVarianceVar", "NANSDVar"} -> NANVarianceVar_step(a, node, v, chunk)

\* the finalize step of each class: [err, out]
Ok(out) == [err |-> FALSE, out |-> out]
Raise   == [err |-> TRUE, out |-> << >>]

MeanVar_finish(a, node) ==                                  \* out / self.N
  [q \in DOMAIN a.out |-> Div(node.dtype, a.out[q], Num(node.N))]

WeightedMeanVar_finish(a, node) ==                          \* out / W
  [q \in DOMAIN a.out |-> Div(node.dtype, a.out[q], a.W[q])]

NANMeanVar_finish(a, node) ==                               \* out / N
  [q \in DOMAIN a.out |-> FDiv(a.out[q], a.N[q])]

WeightedNANMeanVar_finish(a, node) ==                       \* out / W
  [q \in DOMAIN a.out |-> FDiv(a.out[q], a.W[q])]

\* x /= N ; return (x2 - N*x**2) / (N - 1)
VarianceVar_finish(a, node) ==
  LET N == Num(node.N)
      x == [q \in DOMAIN a.x |-> Div(node.dtype, a.x[q], N)]
  IN  [q \in DOMAIN a.x |->
         Div(node.dtype, FSub(a.x2[q], FMul(N, FMul(x[q], x[q]))), Num(node.N - 1))]

\* zeros = np.where(N <= 1.)[0]: the indices, along the FIRST output
\* dimension, of the positions with at most one contribution
FirstDim(node) == CHOOSE a \in AllAxes \ node.indices :
                    \A b \in AllAxes \ node.indices : a <= b
MaskedRows(a, node) == {q[FirstDim(node)] : q \in {r \in DOMAIN a.N : FLe(a.N[r], Num(1))}}

\* x[zeros] = x2[zeros] = nan ; return (x2 - x**2/N) / (N - 1.)
\* (a 0-d array cannot be indexed by an index array: IndexError)
NANVarianceVar_finish(a, node) ==
  IF node.indices = AllAxes THEN Raise
  ELSE LET zeros == MaskedRows(a, node)
           x  == [q \in DOMAIN a.x |-> IF q[FirstDim(node)] \in zeros THEN NaN ELSE a.x[q]]
           x2 == [q \in DOMAIN a.x |-> IF q[FirstDim(node)] \in zeros THEN NaN ELSE a.x2[q]]
       IN  Ok([q \in DOMAIN a.x |->
                 FDiv(FSub(x2[q], FDiv(FMul(x[q], x[q]), a.N[q])),
                      FSub(a.N[q], Num(1)))])

\* SDVar / NANSDVar: clamp the variance, then np.sqrt
\*   scalar:  if variance < 0.: variance = 0.
\*   array:   variance[np.where(variance<=0)] = 0
ClampNoneMutant(variance, isscalar) == variance

Clamp(variance, isscalar) ==
  [q \in DOMAIN variance |->
     IF isscalar
     THEN (IF FLt(variance[q], Num(0)) THEN Num(0) ELSE variance[q])
     ELSE (IF FLe(variance[q], Num(0)) THEN Num(0) ELSE variance[q])]

Sqrt(variance) == [q \in DOMAIN variance |-> NpSqrt(variance[q])]

SDVar_finish(a, node) ==
  Sqrt(Clamp(VarianceVar_finish(a, node), node.indices = AllAxes))

NANSDVar_finish(a, node) ==
  LET variance == NANVarianceVar_finish(a, node)
  IN  IF variance.err THEN Raise
      ELSE Ok(Sqrt(Clamp(variance.out, node.indices = AllAxes)))

Finish(a, node) ==
  CASE node.cls \in {"MinVar", "MaxVar", "SumVar", "WeightedSumVar",
                     "NANSumVar", "WeightedNANSumVar"} -> Ok(a.out)
    [] node.cls = "MeanVar" -> Ok(MeanVar_finish(a, node))
    [] node.cls = "WeightedMeanVar" -> Ok(WeightedMeanVar_finish(a, node))
    [] node.cls = "NANMeanVar" -> Ok(NANMeanVar_finish(a, node))
    [] node.cls = "WeightedNANMeanVar" -> Ok(WeightedNANMeanVar_finish(a, node))
    [] node.cls = "VarianceVar" -> Ok(VarianceVar_finish(a, node))
    [] node.cls = "NANVarianceVar" -> NANVarianceVar_finish(a, node)
    [] node.cls = "SDVar" -> Ok(SDVar_finish(a, node))
    [] node.cls = "NANSDVar" -> NANSDVar_finish(a, node)

\* MinVar / MaxVar store float('inf') into an array of the variable's dtype:
\* an integer array cannot take it (OverflowError)
StartRaises(node) == node.cls \in {"MinVar", "MaxVar"} /\ node.dtype = "int"

(***************************************************************************)
(* climat.py: time axes, TimeMap and TimeOp                                *)
(*   a time axis is [steps, period, fields]: steps is the increasing       *)
(*   sequence of its time steps, fields the calendar fields it carries     *)
(*   (its auxiliary arrays), the finest of which counts the steps: with    *)
(*   fields year and month, step s lies in year s \div period at position  *)
(*   s % period of the year (its 'month' field); with a 'day' field a      *)
(*   month has period days as well; one step lasts one second and the axis *)
(*   starts at step 0                                                      *)
(*   a derived axis is [fields, vals, period]: vals the sequence of its    *)
(*   entries, each a record of the values of its fields                    *)
(***************************************************************************)
RECURSIVE Sorted(_)
Sorted(S) ==
  IF S = {} THEN << >>
  ELSE LET m == CHOOSE x \in S : \A y \in S : x <= y
       IN  <<m>> \o Sorted(S \ {m})

Day(taxis, i) == taxis.steps[i] % taxis.period
Month(taxis, i) ==
  IF "day" \in taxis.fields THEN (taxis.steps[i] \div taxis.period) % taxis.period
  ELSE taxis.steps[i] % taxis.period
Year(taxis, i) ==
  IF "day" \in taxis.fields THEN taxis.steps[i] \div (taxis.period * taxis.period)
  ELSE IF "month" \in taxis.fields THEN taxis.steps[i] \div taxis.period
  ELSE taxis.steps[i]

\* the auxiliary arrays of a time axis at position i, and a choice of them
Aux(taxis, i) ==
  [f \in taxis.fields |->
     CASE f = "year" -> Year(taxis, i)
       [] f = "month" -> Month(taxis, i)
       [] f = "day" -> Day(taxis, i)]

Restrict(r, keep) == [f \in keep |-> r[f]]

\* the position of an entry in calendar order
Code(r, period) ==
  (IF "year" \in DOMAIN r THEN r["year"] * period * period ELSE 0)
  + (IF "month" \in DOMAIN r THEN r["month"] * period ELSE 0)
  + (IF "day" \in DOMAIN r THEN r["day"] ELSE 0)

RECURSIVE Ordered(_, _)
Ordered(S, period) ==
  IF S = {} THEN << >>
  ELSE LET m == CHOOSE x \in S : \A y \in S : Code(x, period) <= Code(y, period)
       IN  <<m>> \o Ordered(S \ {m}, period)

\* Time.modify(..., uniquify=True): the axis reduced to the fields in keep,
\* its distinct entries in calendar order
modify(taxis, keep) ==
  [fields |-> keep, period |-> taxis.period,
   vals |-> Ordered({Restrict(Aux(taxis, i), keep) : i \in DOMAIN taxis.steps},
                    taxis.period)]

\* Axis.reltime(units='seconds'): seconds since the start of the axis
reltime(taxis) == [i \in DOMAIN taxis.steps |-> taxis.steps[i]]

\* Clim.get_outtime: intime.modify(exclude='year', uniquify=True), the
\* distinct positions within the year, in order
Clim_get_outtime(intime) == modify(intime, intime.fields \ {"year"})

\* Monthly.get_outtime / Daily.get_outtime:
\* intime.modify(resolution=..., uniquify=True) keeps the fields down to the
\* resolution that the axis carries; the assertion wants the field itself
Monthly_get_outtime(intime) == modify(intime, intime.fields \cap {"year", "month"})
Daily_get_outtime(intime) == modify(intime, intime.fields \cap {"year", "month", "day"})

\* (mutant: the assertions of Monthly / Daily.get_outtime are missing)
TimeMap_assertNoneMutant(type, outtime) == TRUE

\* assert hasattr(outtime, 'month') / assert hasattr(outtime, 'day')
TimeMap_assert(type, outtime) ==
  CASE type = "monthlymean" -> "month" \in outtime.fields
    [] type = "dailymean" -> "day" \in outtime.fields
    [] OTHER -> TRUE

\* the TimeMap base class of each aggregate
get_outtime(type, intime) ==
  CASE type = "monthlymean" -> Monthly_get_outtime(intime)
    [] type = "dailymean" -> Daily_get_outtime(intime)
    [] OTHER -> Clim_get_outtime(intime)

\* Time.common_map(t, ct): the positions of t that have an entry of ct with
\* the same values of ct's fields, and for each of them the index of that
\* entry, as two parallel sequences
common_map(t, ct) ==
  LET bin(i) == {b \in DOMAIN ct.vals : ct.vals[b] = Restrict(Aux(t, i), ct.fields)}
      im == Sorted({i \in DOMAIN t.steps : bin(i) # {}})
  IN  [inmap  |-> im,
       outmap |-> [k \in DOMAIN im |-> CHOOSE b \in bin(im[k]) : TRUE]]

inmap(t, ct)  == common_map(t, ct).inmap
outmap(t, ct) == common_map(t, ct).outmap

\* TimeOp.__init__: ti, the output time axis (get_outtime may assert)
TimeOp_init(type, v) ==
  LET outtime == get_outtime(type, v.time)
  IN  [cls |-> type, ti |-> 1, outtime |-> outtime,
       dtype |-> v.dtype, err |-> ~TimeMap_assert(type, outtime)]

\* Trend.__init__: more than one timestep is needed
TrendMinStepsMutant(type, v) ==
  LET self == TimeOp_init(type, v)
  IN  [self EXCEPT !.err = ~(v.shape[self.ti] > 0)]

Trend_init(type, v) ==
  LET self == TimeOp_init(type, v)
  IN  [self EXCEPT !.err = ~(v.shape[self.ti] > 1)]

(***************************************************************************)
(* Views.  The view a caller asks getview for is [ct, idx]: the time axis  *)
(* of the node and the indices requested along it (the other axes are      *)
(* always requested whole).  The positions of a view are <<k, j, l>>, k    *)
(* counting the positions of its time axis.                                *)
(***************************************************************************)
\* the caller's selection: sel.all, or the months in sel.months
Requested(ct, sel) ==
  IF sel.all THEN DOMAIN ct.vals
  ELSE {b \in DOMAIN ct.vals : "month" \in ct.fields /\ ct.vals[b]["month"] \in sel.months}

View(nd, sel) == [ct |-> nd.outtime, idx |-> Requested(nd.outtime, sel)]

clipNoneMutant(view) == view          \* (mutant: the view is not clipped)

\* view.clip(): nothing is left outside the selected region
clip(view) ==
  LET idx == Sorted(view.idx)
  IN  [ct  |-> [view.ct EXCEPT !.vals = [k \in DOMAIN idx |-> view.ct.vals[idx[k]]]],
       idx |-> DOMAIN idx]

\* the node as getview sees it through the clipped view
Clipped(nd, sel) == [nd EXCEPT !.outtime = clip(View(nd, sel)).ct]

\* np.all(np.unique(outmap) == np.unique(view.integer_indices[ti]))
Covered(cm, view) == {cm.outmap[k] : k \in DOMAIN cm.outmap} = view.idx

\* (mutant: the output view keeps one time position less)
\* view.replace_axis(Time, t, inmap) and view.replace_axis(Time, ct, outmap)
inviewRepeatMutant(v, view, cm) ==
  [shape |-> <<Len(cm.inmap), v.shape[2], v.shape[3]>>, ti |-> 1,
   ind |-> [k \in DOMAIN cm.inmap |-> cm.inmap[1]]]

inview(v, view, cm) ==
  [shape |-> <<Len(cm.inmap), v.shape[2], v.shape[3]>>, ti |-> 1, ind |-> cm.inmap]

climviewShortMutant(v, view, cm) ==
  [shape |-> <<Len(cm.outmap) - 1, v.shape[2], v.shape[3]>>, ti |-> 1,
   ind |-> cm.outmap]

climview(v, view, cm) ==
  [shape |-> <<Len(cm.outmap), v.shape[2], v.shape[3]>>, ti |-> 1, ind |-> cm.outmap]

\* the set-up of loopover, before its loop: the views, or the assertion that
\* failed
loopover_setup(v, nd, sel) ==
  LET view == clip(View(nd, sel))
      cm   == common_map(v.time, view.ct)
      inv  == inview(v, view, cm)
      cv   == climview(v, view, cm)
  IN  [inview |-> inv, climview |-> cv,
       err |-> ~Covered(cm, view) \/ inv.shape # cv.shape \/ inv.ti # cv.ti]

\* View.loop_mem: the pieces a region can be cut into next, each within the
\* memory budget
loop_mem(region) ==
  {c \in {Box(lo, hi) : lo \in region, hi \in region} :
     c # {} /\ c \subseteq region /\ Cardinality(c) <= MaxMem}

\* inv.get(var): the data of one chunk of the input view
ViewData(v, im, chunk) == [p \in chunk |-> v.values[<<im[p[1]], p[2], p[3]>>]]

\* the output positions of a TimeOp: the time axis is replaced by the bins
BinPos(v, node) ==
  {<<b, j, k>> : b \in DOMAIN node.outtime.vals, j \in 1 .. v.shape[2], k \in 1 .. v.shape[3]}

\* the bin position an input position is accumulated into
BinOf(p, bins) == <<bins[p[1]], p[2], p[3]>>

BinCell(chunk, bins, q) == {p \in chunk : BinOf(p, bins) = q}

\* pygeode.tools.partial_sum(data, slices, sum, count, ti, bins): every
\* element of the chunk is added to the bin of its time index, and counted
partial_sum(f, total, count, bins) ==
  [sum   |-> [q \in DOMAIN total |->
                IF BinCell(DOMAIN f, bins, q) = {} THEN total[q]
                ELSE FAdd(total[q], npsum(f, BinCell(DOMAIN f, bins, q)))],
   count |-> [q \in DOMAIN count |-> count[q] + Cardinality(BinCell(DOMAIN f, bins, q))]]

IntZeros(Q) == [q \in Q |-> 0]

\* Mean.getview
Mean_start(Q) == [sum |-> Zeros(Q), count |-> IntZeros(Q)]

Mean_step(a, lp, v, chunk) ==
  partial_sum(ViewData(v, lp.inview.ind, chunk), a.sum, a.count, lp.climview.ind)

Mean_finish(a, node) ==                                     \* sum /= count
  [q \in DOMAIN a.sum |-> Div(node.dtype, a.sum[q], Num(a.count[q]))]

\* Trend.getview
Trend_start(Q) ==
  [X |-> Zeros(Q), nX |-> IntZeros(Q), F |-> Zeros(Q), nF |-> IntZeros(Q),
   XF |-> Zeros(Q), nXF |-> IntZeros(Q), X2 |-> Zeros(Q), nX2 |-> IntZeros(Q)]

\* the chunk of the seconds variable, broadcast against the data chunk
Secs(v, im, chunk) == [p \in chunk |-> Num(reltime(v.time)[im[p[1]]])]
Times(f, g) == [p \in DOMAIN f |-> FMul(f[p], g[p])]

Trend_step(a, lp, v, chunk) ==
  LET bins == lp.climview.ind
      im   == lp.inview.ind
      data == ViewData(v, im, chunk)
      t    == Secs(v, im, chunk)
      sF   == partial_sum(data, a.F, a.nF, bins)
      sX   == partial_sum(t, a.X, a.nX, bins)
      sXF  == partial_sum(Times(data, t), a.XF, a.nXF, bins)
      sX2  == partial_sum(Squares(t), a.X2, a.nX2, bins)
  IN  [X |-> sX.sum, nX |-> sX.count, F |-> sF.sum, nF |-> sF.count,
       XF |-> sXF.sum, nXF |-> sXF.count, X2 |-> sX2.sum, nX2 |-> sX2.count]

\* the finalize step of Trend.getview; the result carries the coefficient
\* axis last: out[q][1] is coefficient 0, out[q][2] is coefficient 1
Trend_finish(a, node) ==
  [q \in DOMAIN a.F |->
     LET F   == FDiv(a.F[q], Num(a.nF[q]))
         X   == FDiv(a.X[q], Num(a.nX[q]))
         XF  == FDiv(a.XF[q], Num(a.nXF[q]))
         X2  == FDiv(a.X2[q], Num(a.nX2[q]))
         A   == FSub(XF, FMul(X, F))
         B   == FSub(FMul(X2, F), FMul(X, XF))
         den == FSub(X2, FMul(X, X))
     IN  <<FDiv(B, den), FDiv(A, den)>>]

\* from_trend.getview over the whole target axis: A*secs + B, the
\* coefficients of each time position taken from its climatological bin
from_trend(taxis, ct, coef, P) ==
  [p \in P |->
     LET q == BinOf(p, outmap(taxis, ct))
         B == coef[q][1]
         A == coef[q][2]
     IN  FAdd(FMul(A, Num(reltime(taxis)[p[1]])), B)]

\* detrend(var, return_clim=True): (var - clim, clim)
detrend(v, ct, coef) ==
  LET clim == from_trend(v.time, ct, coef, AllPos(v.shape))
  IN  [out  |-> [p \in AllPos(v.shape) |-> FSub(v.values[p], clim[p])],
       clim |-> clim]

MeanFuncs == {"climatology", "monthlymean", "dailymean"}
TimeFuncs == MeanFuncs \cup {"climtrend", "detrend"}

(***************************************************************************)
(* The inputs the model enumerates                                         *)
(***************************************************************************)
Vals == -1 .. MaxVal

Elements(dtype) == {Num(i) : i \in Vals} \cup (IF dtype = "float" THEN {NaN} ELSE {})

Shapes == {<<n, 2, 1>> : n \in 0 .. MaxLen}

Ramp(n) == [i \in 1 .. n |-> i]                 \* weights 1, 2, ..., n
Ones(n) == [i \in 1 .. n |-> 1]                 \* weights 1, 1, ..., 1

\* axis 1 of the enumerated arrays carries the weights 1, 2, ... (as a
\* latitude axis does), the other axes carry none
AxisWeights(shape) == [a \in AllAxes |-> IF a = 1 THEN Ramp(shape[1]) ELSE << >>]

\* the series 1, 2, 3, 4, 5 of the specification's variance example
Series == [shape |-> <<5, 1, 1>>, values |-> [p \in AllPos(<<5, 1, 1>>) |-> Num(p[1])]]

Dtypes == {"int", "float"}

\* weights variables a caller passes: one without axes, and the weights 1
\* everywhere on axis 1, on axis 2, and on both
CustomW(shape) ==
  {ScalarW} \cup
  {[axes |-> ax, vec |-> [a \in AllAxes |-> IF a \in ax THEN Ones(shape[a]) ELSE << >>]] :
     ax \in (SUBSET {1, 2}) \ {{}}}

AxesChoices == SUBSET {1, 2}

Calls(shape) ==
  {[func |-> f, axes |-> ax, weights |-> Kw("absent")] : f \in PlainFuncs, ax \in AxesChoices}
  \cup
  {[func |-> f, axes |-> ax, weights |-> kw] :
     f \in WeightedFuncs, ax \in AxesChoices,
     kw \in {Kw("absent"), Kw("True"), Kw("False"), Kw("None")}
            \cup {KwVar(w) : w \in CustomW(shape)}}

\* time axes: any increasing selection of the steps 0 .. MaxT
TimeAxes ==
  {[steps |-> Sorted(S), period |-> per, fields |-> {"year", "month"}] :
     S \in SUBSET (0 .. MaxT), per \in 1 .. MaxPeriod}

\* yearly, monthly and daily axes over the first steps, for the aggregates that
\* change the resolution
CalendarAxes ==
  {[steps |-> Sorted(0 .. n), period |-> MaxPeriod, fields |-> fs] :
     n \in 0 .. MaxT,
     fs \in {{"year"}, {"year", "month"}, {"year", "month", "day"}}}

\* what a caller requests of the result: all of it, or one month of the year
All == [all |-> TRUE, months |-> {}]
Sels == {All} \cup {[all |-> FALSE, months |-> {m}] : m \in 0 .. MaxPeriod - 1}

\* variables over (time, one more axis of length 1 or 2, an axis of length 1)
TimeShapes(taxis) ==
  {<<Len(taxis.steps), nk, 1>> : nk \in {k \in 1 .. 2 : Len(taxis.steps) * k <= MaxT + 1}}

\* the trend functions are enumerated for floating data
TimeCalls(dtype) ==
  {[func |-> f, axes |-> {}, weights |-> Kw("absent"), sel |-> sel] :
     f \in IF dtype = "float" THEN {"climatology", "climtrend"} ELSE {"climatology"},
     sel \in Sels}
  \cup
  {[func |-> f, axes |-> {}, weights |-> Kw("absent"), sel |-> All] :
     f \in IF dtype = "float" THEN {"detrend"} ELSE {}}

ResolutionCalls ==
  {[func |-> f, axes |-> {}, weights |-> Kw("absent"), sel |-> All] :
     f \in {"monthlymean", "dailymean"}}

\* the specification's trend example: y = 3 t + 7 sampled once a year
Line == [time |-> [steps |-> <<0, 1, 2>>, period |-> 1, fields |-> {"year", "month"}],
         shape |-> <<3, 1, 1>>,
         values |-> [p \in AllPos(<<3, 1, 1>>) |-> Num(3 * (p[1] - 1) + 7)]]

(***************************************************************************)
(* The state machine of one reduction call                                 *)
(*   pc: "call" -> "getview" -> "loop" -> "done", or "error"               *)
(*   raised: the exception that ended the call, "" while there is none    *)
(*   fetched: how often loopover has delivered each input element so far   *)
(*   loop: the two views loopover drives in lockstep, once it has set up   *)
(***************************************************************************)
VARIABLES var, call, node, pc, todo, acc, result, nchunks, raised, fetched, loop

vars == <<var, call, node, pc, todo, acc, result, nchunks, raised, fetched, loop>>

None == << >>

InitWith(v, c) ==
  /\ var = v
  /\ call = c
  /\ node = None
  /\ pc = "call"
  /\ todo = {}
  /\ acc = None
  /\ result = None
  /\ nchunks = 0     \* the chunks loopover has yielded so far
  /\ raised = ""
  /\ fetched = None
  /\ loop = None

Init ==
  \/ \E sh \in Shapes, dt \in Dtypes :
       \E vals \in [AllPos(sh) -> Elements(dt)], c \in Calls(sh) :
         InitWith([shape |-> sh, dtype |-> dt, values |-> vals,
                   wts |-> AxisWeights(sh)], c)
  \/ \E dt \in Dtypes, c \in Calls(Series.shape) :
       InitWith([shape |-> Series.shape, dtype |-> dt, values |-> Series.values,
                 wts |-> NoVec], c)
  \/ \E taxis \in TimeAxes, dt \in Dtypes :
       \E sh \in TimeShapes(taxis), c \in TimeCalls(dt) :
         \E vals \in [AllPos(sh) -> Elements(dt)] :
           InitWith([shape |-> sh, dtype |-> dt, values |-> vals, wts |-> NoVec,
                     time |-> taxis], c)
  \/ \E c \in TimeCalls("float") :
       InitWith([shape |-> Line.shape, dtype |-> "float", values |-> Line.values,
                 wts |-> NoVec, time |-> Line.time], c)
  \/ \E taxis \in CalendarAxes, dt \in Dtypes, c \in ResolutionCalls :
       \E vals \in [AllPos(<<Len(taxis.steps), 1, 1>>) -> Elements(dt)] :
         InitWith([shape |-> <<Len(taxis.steps), 1, 1>>, dtype |-> dt, values |-> vals,
                   wts |-> NoVec, time |-> taxis], c)

\* the call of a factory function: the class is picked and constructed
Construct ==
  /\ pc = "call"
  /\ call.func \notin TimeFuncs
  /\ node' = Apply(call, var)
  /\ pc' = IF node'.err THEN "error" ELSE "getview"
  /\ raised' = IF node'.err THEN "AssertionError" ELSE ""
  /\ UNCHANGED <<var, call, todo, acc, result, nchunks, fetched, loop>>

\* getview up to its loop: the accumulators are created
Start ==
  /\ pc = "getview"
  /\ call.func \notin TimeFuncs
  /\ IF StartRaises(node)
     THEN pc' = "error" /\ raised' = "OverflowError" /\ UNCHANGED <<acc, todo>>
     ELSE /\ acc' = StartAcc(node, OutPos(var.shape, node.indices))
          /\ todo' = AllPos(var.shape)
          /\ pc' = "loop"
          /\ UNCHANGED raised
  /\ UNCHANGED <<var, call, node, result, nchunks, fetched, loop>>

\* one iteration of the loop: loopover yields one more rectangular chunk of
\* the region
Chunk ==
  /\ pc = "loop"
  /\ call.func \notin TimeFuncs
  /\ \E lo \in todo, hi \in todo :
       /\ Box(lo, hi) # {}
       /\ Box(lo, hi) \subseteq todo
       /\ acc' = Step(acc, node, var, Box(lo, hi))
       /\ todo' = todo \ Box(lo, hi)
  /\ nchunks' = nchunks + 1
  /\ UNCHANGED <<var, call, node, pc, result, raised, fetched, loop>>

\* the loop is exhausted: the finalize step, and the return
Finalize ==
  /\ pc = "loop"
  /\ call.func \notin TimeFuncs
  /\ todo = {}
  /\ LET r == Finish(acc, node)
     IN  IF r.err THEN pc' = "error" /\ raised' = "IndexError" /\ UNCHANGED result
         ELSE pc' = "done" /\ result' = r.out /\ UNCHANGED raised
  /\ UNCHANGED <<var, call, node, todo, acc, nchunks, fetched, loop>>

\* climatology(var), climtrend(var), and the climtrend(var) inside detrend
ConstructTimeOp ==
  /\ pc = "call"
  /\ call.func \in TimeFuncs
  /\ node' = IF call.func \in MeanFuncs THEN TimeOp_init(call.func, var)
             ELSE Trend_init("climtrend", var)
  /\ pc' = IF node'.err THEN "error" ELSE "getview"
  /\ raised' = IF node'.err THEN "AssertionError" ELSE ""
  /\ UNCHANGED <<var, call, todo, acc, result, nchunks, fetched, loop>>

\* Mean.getview / Trend.getview up to the loop: the accumulators
StartTimeOp ==
  /\ pc = "getview"
  /\ call.func \in TimeFuncs
  /\ acc' = IF node.cls \in MeanFuncs
            THEN Mean_start(BinPos(var, Clipped(node, call.sel)))
            ELSE Trend_start(BinPos(var, Clipped(node, call.sel)))
  /\ pc' = "setup"
  /\ UNCHANGED <<var, call, node, todo, result, nchunks, raised, fetched, loop>>

\* loopover up to its loop: the view is clipped, the time axes are mapped,
\* the assertions are made
LoopoverSetup ==
  /\ pc = "setup"
  /\ LET s == loopover_setup(var, node, call.sel)
     IN  IF s.err
         THEN /\ pc' = "error"
              /\ raised' = "AssertionError"
              /\ acc' = None
              /\ UNCHANGED <<todo, fetched, loop>>
         ELSE /\ pc' = "loop"
              /\ todo' = AllPos(s.inview.shape)
              /\ fetched' = [p \in AllPos(var.shape) |-> 0]
              /\ loop' = [inview |-> s.inview, climview |-> s.climview]
              /\ UNCHANGED <<acc, raised>>
  /\ UNCHANGED <<var, call, node, result, nchunks>>

\* the variables a getview drives through loopover: Mean.getview passes
\* [self.var], Trend.getview passes [self.var, secs]
varlist(nd) == IF nd.cls \in MeanFuncs THEN <<"var">> ELSE <<"var", "secs">>

\* the time steps one chunk spans
TimeExtent(chunk) == {p[1] : p \in chunk}

\* data = [inv.get(var) for var in varlist]: the elements all the arrays of
\* one chunk hold together; secs has the time axis only
Materialized(nd, chunk) ==
  LET size(name) == IF name = "var" THEN Cardinality(chunk)
                    ELSE Cardinality(TimeExtent(chunk))
      RECURSIVE total(_)
      total(i) == IF i = 0 THEN 0 ELSE size(varlist(nd)[i]) + total(i - 1)
  IN  total(Len(varlist(nd)))

\* one chunk of loopover: the same piece of the input view and of the view
\* of the bins, fetched and scattered into the bins
ChunkTimeOp ==
  /\ pc = "loop"
  /\ call.func \in TimeFuncs
  /\ \E chunk \in loop_mem(todo) :
       /\ acc' = IF node.cls \in MeanFuncs THEN Mean_step(acc, loop, var, chunk)
                 ELSE Trend_step(acc, loop, var, chunk)
       /\ todo' = todo \ chunk
       /\ fetched' = [p \in DOMAIN fetched |->
                        fetched[p] + Cardinality({c \in chunk :
                           <<loop.inview.ind[c[1]], c[2], c[3]>> = p})]
  /\ nchunks' = nchunks + 1
  /\ UNCHANGED <<var, call, node, pc, result, raised, loop>>

\* the division after the loop; detrend goes on with the loaded coefficients
FinalizeTimeOp ==
  /\ pc = "loop"
  /\ call.func \in TimeFuncs
  /\ todo = {}
  /\ result' = IF node.cls \in MeanFuncs THEN Mean_finish(acc, node)
               ELSE Trend_finish(acc, node)
  /\ pc' = IF call.func = "detrend" THEN "loaded" ELSE "done"
  /\ UNCHANGED <<var, call, node, todo, acc, nchunks, raised, fetched, loop>>

\* detrend: from_trend over the variable's own time axis, and var - clim
Detrend ==
  /\ pc = "loaded"
  /\ result' = detrend(var, node.outtime, result)
  /\ pc' = "done"
  /\ UNCHANGED <<var, call, node, todo, acc, nchunks, raised, fetched, loop>>

\* the fetch of the next chunk (view.get inside loopover) fails in the data
\* source: the exception leaves getview, whose accumulators are local
FetchFailsPartialMutant ==
  /\ pc = "loop"
  /\ todo # {}
  /\ pc' = "error"
  /\ raised' = "IOError"
  /\ result' = [p \in todo |-> var.values[p]]
  /\ acc' = None
  /\ todo' = {}
  /\ fetched' = None
  /\ loop' = None
  /\ UNCHANGED <<var, call, node, nchunks>>

FetchFails ==
  /\ pc = "loop"
  /\ todo # {}
  /\ pc' = "error"
  /\ raised' = "IOError"
  /\ acc' = None
  /\ todo' = {}
  /\ fetched' = None
  /\ loop' = None
  /\ UNCHANGED <<var, call, node, result, nchunks>>

Next ==
  \/ Construct \/ Start \/ Chunk \/ Finalize
  \/ ConstructTimeOp \/ StartTimeOp \/ LoopoverSetup \/ ChunkTimeOp
  \/ FinalizeTimeOp \/ Detrend
  \/ FetchFails

Spec == Init /\ [][Next]_vars

(***************************************************************************)
(* Axis lookup: Var.whichaxis, Var.hasaxis, Var.getaxis                    *)
(* An axis is a record [cls, name]; an identifier is a string, an integer, *)
(* an axis object or a class.  Indices count from 0, as in the code.       *)
(***************************************************************************)
AxisClasses == {"Lat", "Lon"}

\* the axes a variable may carry: two latitude axes under different names,
\* and a longitude axis
AxisPool == {[cls |-> "Lat", name |-> "lat"], [cls |-> "Lat", name |-> "y"],
             [cls |-> "Lon", name |-> "lon"]}

AxisTuples ==
  {<< >>} \cup {<<a>> : a \in AxisPool} \cup {<<a, b>> : a \in AxisPool, b \in AxisPool}

\* the classes a caller may pass: Axis and its subclasses, and a class that
\* is no Axis
Classes == {"Axis", "Lat", "Lon", "Time", "str"}

Identifiers ==
  {[kind |-> "str", val |-> n] : n \in {"lat", "y", "lon", "time"}}
  \cup {[kind |-> "int", val |-> i] : i \in -1 .. 2}
  \cup {[kind |-> "axis", val |-> a] : a \in AxisPool}
  \cup {[kind |-> "class", val |-> c] : c \in Classes}

AxisFuncs == {"whichaxis", "hasaxis", "getaxis"}

\* Axis.has_alias
has_alias(a, name) == a.name = name

\* isinstance(a, cls) and issubclass(cls, Axis)
IsInstance(a, cls) == cls = "Axis" \/ a.cls = cls
IsSubclassOfAxis(cls) == cls \in {"Axis"} \cup AxisClasses \cup {"Time"}

\* for i,a in enumerate(self.axes): if <test>: return i -- the lowest of the
\* indices (from 0) whose axis passes the test, or KeyError when there is none
FirstAxis(hits) ==
  IF hits = {} THEN [exc |-> "KeyError", ret |-> -1]
  ELSE [exc |-> "", ret |-> CHOOSE i \in hits : \A j \in hits : i <= j]

\* Var.whichaxis: the index, or the exception raised
whichaxis(v, iaxis) ==
  LET idx     == 0 .. Len(v.axes) - 1
      byName  == {i \in idx : has_alias(v.axes[i + 1], iaxis.val)}
      byEq    == {i \in idx : v.axes[i + 1] = iaxis.val}
      byClass == {i \in idx : IsInstance(v.axes[i + 1], iaxis.val)}
  IN  IF iaxis.kind = "str" THEN FirstAxis(byName)
      ELSE IF iaxis.kind = "int" /\ 0 <= iaxis.val /\ iaxis.val < Len(v.axes)
        THEN [exc |-> "", ret |-> iaxis.val]
      ELSE IF iaxis.kind = "axis" THEN FirstAxis(byEq)
      \* issubclass(iaxis, Axis) raises TypeError when iaxis is no class
      ELSE IF iaxis.kind # "class" THEN [exc |-> "TypeError", ret |-> -1]
      ELSE IF IsSubclassOfAxis(iaxis.val) THEN FirstAxis(byClass)
      ELSE [exc |-> "KeyError", ret |-> -1]

\* Var.hasaxis: only KeyError is caught
hasaxis(v, iaxis) ==
  LET w == whichaxis(v, iaxis)
  IN  IF w.exc = "KeyError" THEN [exc |-> "", ret |-> FALSE]
      ELSE IF w.exc # "" THEN [exc |-> w.exc, ret |-> FALSE]
      ELSE [exc |-> "", ret |-> TRUE]

\* Var.getaxis
getaxis(v, iaxis) ==
  LET w == whichaxis(v, iaxis)
  IN  IF w.exc # "" THEN [exc |-> w.exc, ret |-> None]
      ELSE [exc |-> "", ret |-> v.axes[w.ret + 1]]

InitAxis ==
  \E axes \in AxisTuples, f \in AxisFuncs, id \in Identifiers :
    InitWith([axes |-> axes], [func |-> f, iaxis |-> id])

\* the caller receives the returned value as << value >>, or the exception
Returns(r) ==
  /\ pc' = IF r.exc = "" THEN "done" ELSE "error"
  /\ raised' = r.exc
  /\ result' = IF r.exc = "" THEN <<r.ret>> ELSE None
  /\ UNCHANGED <<var, call, node, todo, acc, nchunks, fetched, loop>>

Whichaxis ==
  /\ pc = "call" /\ call.func = "whichaxis"
  /\ Returns(whichaxis(var, call.iaxis))

Hasaxis ==
  /\ pc = "call" /\ call.func = "hasaxis"
  /\ Returns(hasaxis(var, call.iaxis))

Getaxis ==
  /\ pc = "call" /\ call.func = "getaxis"
  /\ Returns(getaxis(var, call.iaxis))

NextAxis == Whichaxis \/ Hasaxis \/ Getaxis

SpecAxis == InitAxis /\ [][NextAxis]_vars

(***************************************************************************)
(* What a reduction call returns: ReducedVar.__new__ and Var.load          *)
(*   a variable is [shape, dtype, values, wts, inmem]; inmem says that it  *)
(*   holds its values in memory (it has the attribute 'values')            *)
(*   pc: "call" -> "done" (values were returned), or                       *)
(*       "call" -> "lazy" (a node was returned) -> "loaded", or "error"    *)
(***************************************************************************)
\* hasattr(v, 'values')
InMemory(v) == v.inmem

\* the kind of object ReducedVar.__new__ returns: the array new.get() when
\* no indices were given, the loaded variable new.load() when every input
\* is in memory, the node itself otherwise
ReturnKind(nd, v) ==
  IF nd.scalar THEN "array"
  ELSE IF InMemory(v) THEN "var"
  ELSE "node"

\* Var.get of a node: its whole view
get(nd, v) ==
  IF StartRaises(nd) THEN [err |-> TRUE, exc |-> "OverflowError", out |-> None]
  ELSE LET r == Finish(Step(StartAcc(nd, OutPos(v.shape, nd.indices)), nd, v,
                            AllPos(v.shape)), nd)
       IN  IF r.err THEN [err |-> TRUE, exc |-> "IndexError", out |-> None]
           ELSE [err |-> FALSE, exc |-> "", out |-> r.out]

MemoryCalls ==
  {[func |-> f, axes |-> ax, weights |-> Kw("absent")] :
     f \in PlainFuncs \cup WeightedFuncs, ax \in AxesChoices}

InitNew ==
  \E sh \in {<<2, 2, 1>>, Series.shape}, dt \in Dtypes, c \in MemoryCalls, m \in BOOLEAN :
    InitWith([shape |-> sh, dtype |-> dt, values |-> [p \in AllPos(sh) |-> Num(p[1])],
              wts |-> NoVec, inmem |-> m], c)

\* the call of a factory function, up to the object it returns
NewReducedVar ==
  /\ pc = "call"
  /\ node' = Apply(call, var)
  /\ IF node'.err
     THEN pc' = "error" /\ raised' = "AssertionError" /\ UNCHANGED result
     ELSE IF ReturnKind(node', var) = "node"
     THEN pc' = "lazy" /\ UNCHANGED <<raised, result>>
     ELSE LET r == get(node', var)
          IN  /\ pc' = IF r.err THEN "error" ELSE "done"
              /\ raised' = r.exc
              /\ result' = r.out
  /\ UNCHANGED <<var, call, todo, acc, nchunks, fetched, loop>>

\* Var.load of the node that was returned
Load ==
  /\ pc = "lazy"
  /\ LET r == get(node, var)
     IN  /\ pc' = IF r.err THEN "error" ELSE "loaded"
         /\ raised' = r.exc
         /\ result' = r.out
  /\ UNCHANGED <<var, call, node, todo, acc, nchunks, fetched, loop>>

NextNew == NewReducedVar \/ Load

SpecNew == InitNew /\ [][NextNew]_vars

(***************************************************************************)
(* Reconstruction: from_trend.__init__                                     *)
(*   the call is [func, coef, A, B, coeft]: coef, A and B say which of the *)
(*   arguments are given (not None), coeft is the time axis the given      *)
(*   coefficients carry; var.time is the target time axis                  *)
(***************************************************************************)
\* hasattr(coeft,'year') and len(np.unique(coeft.year.values)) == 1
DegenerateYear(coeft) ==
  /\ "year" \in coeft.fields
  /\ Cardinality({coeft.vals[i]["year"] : i \in DOMAIN coeft.vals}) = 1

\* coeft.modify(exclude='year')
drop_year(coeft) ==
  [fields |-> coeft.fields \ {"year"}, period |-> coeft.period,
   vals |-> [i \in DOMAIN coeft.vals |-> Restrict(coeft.vals[i], coeft.fields \ {"year"})]]

\* Axis.map_to(taxis) is not None: the two axes use the same calendar
map_to(axis, taxis) == axis.period = taxis.period

\* (mutant: the degenerate year field is kept)
from_trend_initKeepYearMutant(taxis, c) ==
  LET given == IF ~c.coef THEN c.A /\ c.B ELSE ~c.A /\ ~c.B
  IN  IF ~given THEN [err |-> TRUE, warned |-> FALSE, coeft |-> c.coeft]
      ELSE [err |-> ~map_to(c.coeft, taxis), warned |-> FALSE, coeft |-> c.coeft]

\* from_trend.__init__: the assertions on the arguments, the drop of a
\* degenerate year field with its warning, the assertion on the axes
from_trend_init(taxis, c) ==
  LET given == IF ~c.coef THEN c.A /\ c.B ELSE ~c.A /\ ~c.B
      drop  == DegenerateYear(c.coeft)
      coeft == IF drop THEN drop_year(c.coeft) ELSE c.coeft
  IN  IF ~given THEN [err |-> TRUE, warned |-> FALSE, coeft |-> c.coeft]
      ELSE [err |-> ~map_to(coeft, taxis), warned |-> drop, coeft |-> coeft]

\* the time axes coefficients may carry: climatological axes, with or
\* without a year field
CoefAxes == {modify(a, fs) : a \in TimeAxes, fs \in {{"month"}, {"year", "month"}}}

InitFromTrend ==
  \E taxis \in TimeAxes, coeft \in CoefAxes, coef \in BOOLEAN, A \in BOOLEAN, B \in BOOLEAN :
    InitWith([time |-> taxis],
             [func |-> "from_trend", coef |-> coef, A |-> A, B |-> B, coeft |-> coeft])

ConstructFromTrend ==
  /\ pc = "call"
  /\ node' = from_trend_init(var.time, call)
  /\ pc' = IF node'.err THEN "error" ELSE "done"
  /\ raised' = IF node'.err THEN "AssertionError" ELSE ""
  /\ UNCHANGED <<var, call, todo, acc, result, nchunks, fetched, loop>>

NextFromTrend == ConstructFromTrend

SpecFromTrend == InitFromTrend /\ [][NextFromTrend]_vars

(***************************************************************************)
(* The order of the steps of one getview: loopover as a generator          *)
(*   pc: "next"     at the head of loopover's for loop                     *)
(*       "fetch"    inside data = [inv.get(var) for var in varlist]        *)
(*       "update"   after the yield, in the body of getview's for loop     *)
(*       "finalize" after the loop, then "done"; or "error"                *)
(*   loop = [chunk, got]: the current piece and how many variables of it   *)
(*   have been fetched; acc = [upd, fin]: how often each accumulator has   *)
(*   been updated and how often the finalize step has run; nchunks counts  *)
(*   the chunks yielded                                                    *)
(***************************************************************************)
\* the accumulators of a getview in the order its loop body updates them:
\* Mean has one partial_sum call per chunk, Trend has four
Accumulators(nd) ==
  IF nd.cls \in MeanFuncs THEN <<"sum">> ELSE <<"F", "X", "XF", "X2">>

\* the accumulator the loop body updates next, given the updates so far
Pending(a, nd, n) ==
  {k \in DOMAIN Accumulators(nd) :
     /\ a.upd[Accumulators(nd)[k]] < n
     /\ \A j \in 1 .. k - 1 : a.upd[Accumulators(nd)[j]] = n}

SeqShapes == {<<n, k, 1>> : n \in 1 .. MaxT, k \in 1 .. 2}

InitSeq ==
  \E sh \in SeqShapes, f \in {"climatology", "climtrend"} :
    /\ var = [shape |-> sh]
    /\ call = [func |-> f]
    /\ node = [cls |-> f]
    /\ pc = "next"
    /\ todo = AllPos(sh)
    /\ acc = [upd |-> [a \in {Accumulators([cls |-> f])[k] :
                              k \in DOMAIN Accumulators([cls |-> f])} |-> 0],
              fin |-> 0]
    /\ result = None
    /\ nchunks = 0
    /\ raised = ""
    /\ fetched = None
    /\ loop = [chunk |-> {}, got |-> 0]

\* for i, (inv, climv) in enumerate(loop): the next piece, or the end
NextPiece ==
  /\ pc = "next"
  /\ todo # {}
  /\ \E chunk \in loop_mem(todo) :
       /\ loop' = [chunk |-> chunk, got |-> 0]
       /\ todo' = todo \ chunk
  /\ pc' = "fetch"
  /\ UNCHANGED <<var, call, node, acc, result, nchunks, raised, fetched>>

\* (mutant: the chunk is yielded after its first variable)
FetchVarYieldEarlyMutant ==
  /\ pc = "fetch"
  /\ loop' = [loop EXCEPT !.got = @ + 1]
  /\ pc' = "update"
  /\ nchunks' = nchunks + 1
  /\ UNCHANGED <<var, call, node, todo, acc, result, raised, fetched>>

\* inv.get(var) for the next variable of varlist; after the last one the
\* chunk is yielded
FetchVar ==
  /\ pc = "fetch"
  /\ loop.got < Len(varlist(node))
  /\ loop' = [loop EXCEPT !.got = @ + 1]
  /\ IF loop'.got = Len(varlist(node))
     THEN pc' = "update" /\ nchunks' = nchunks + 1
     ELSE UNCHANGED <<pc, nchunks>>
  /\ UNCHANGED <<var, call, node, todo, acc, result, raised, fetched>>

\* inv.get(var) raises
FetchVarFails ==
  /\ pc = "fetch"
  /\ loop.got < Len(varlist(node))
  /\ pc' = "error"
  /\ raised' = "IOError"
  /\ UNCHANGED <<var, call, node, todo, acc, result, nchunks, fetched, loop>>

\* one partial_sum call of the loop body; after the last one the generator
\* is resumed
UpdateAccumulator ==
  /\ pc = "update"
  /\ \E k \in Pending(acc, node, nchunks) :
       /\ acc' = [acc EXCEPT !.upd[Accumulators(node)[k]] = @ + 1]
       /\ pc' = IF k = Len(Accumulators(node)) THEN "next" ELSE "update"
  /\ UNCHANGED <<var, call, node, todo, result, nchunks, raised, fetched, loop>>

\* the generator is exhausted
Exhausted ==
  /\ pc = "next"
  /\ todo = {}
  /\ pc' = "finalize"
  /\ UNCHANGED <<var, call, node, todo, acc, result, nchunks, raised, fetched, loop>>

\* the divisions after the loop, and the return
FinalizeOnce ==
  /\ pc = "finalize"
  /\ acc' = [acc EXCEPT !.fin = @ + 1]
  /\ pc' = "done"
  /\ UNCHANGED <<var, call, node, todo, result, nchunks, raised, fetched, loop>>

NextSeq ==
  \/ NextPiece \/ FetchVar \/ FetchVarFails \/ UpdateAccumulator
  \/ Exhausted \/ FinalizeOnce

\* the interpreter keeps running the call until it returns or raises
SpecSeq == InitSeq /\ [][NextSeq]_vars /\ WF_vars(NextSeq)

(***************************************************************************)
(* Weighted means with weights that are not whole numbers                  *)
(***************************************************************************)
\* weights 1/2, 1, 3/2, ... or 1, 2, 3, ... on the first axis
Halves(shape) == [axes |-> {1}, vec |-> [a \in AllAxes |-> IF a = 1 THEN Ramp(shape[1]) ELSE << >>],
                  den |-> 2]
Wholes(shape) == [axes |-> {1}, vec |-> [a \in AllAxes |-> IF a = 1 THEN Ramp(shape[1]) ELSE << >>],
                  den |-> 1]

InitHalf ==
  \E sh \in {<<2, 2, 1>>, <<3, 2, 1>>}, dt \in Dtypes, ax \in {{1}, {1, 2}} :
    \E x \in Elements("int") \cup {Num(3)}, w \in {Halves(sh), Wholes(sh)} :
      InitWith([shape |-> sh, dtype |-> dt, values |-> [p \in AllPos(sh) |-> x],
                wts |-> NoVec],
               [func |-> "mean", axes |-> ax, weights |-> KwVar(w)])

NextReduce == Construct \/ Start \/ Chunk \/ Finalize

SpecHalf == InitHalf /\ [][NextReduce]_vars

(***************************************************************************)
(* NaN-aware variance with an output of two dimensions                     *)
(***************************************************************************)
\* a variable of shape (2,2,2), each element either NaN or its index along
\* the first axis
InitNanVar ==
  \E nans \in SUBSET AllPos(<<2, 2, 2>>) :
    InitWith([shape |-> <<2, 2, 2>>, dtype |-> "float",
              values |-> [p \in AllPos(<<2, 2, 2>>) |->
                            IF p \in nans THEN NaN ELSE Num(p[1])],
              wts |-> NoVec],
             [func |-> "nanvariance", axes |-> {1}, weights |-> Kw("absent")])

SpecNanVar == InitNanVar /\ [][NextReduce]_vars

(***************************************************************************)
(* Reference computations used by the properties                           *)
(***************************************************************************)
\* the reduction carried out with the whole region as its single chunk
OneChunk(nd, v) ==
  Finish(Step(StartAcc(nd, OutPos(v.shape, nd.indices)), nd, v, AllPos(v.shape)), nd)

\* (nd is the node seen through the clipped view of the call)
MeanOneChunk(nd, v) ==
  LET cm == common_map(v.time, nd.outtime)
      lp == [inview |-> [ind |-> cm.inmap], climview |-> [ind |-> cm.outmap]]
  IN  Mean_finish(Mean_step(Mean_start(BinPos(v, nd)), lp, v,
                            AllPos(<<Len(cm.inmap), v.shape[2], v.shape[3]>>)),
                  nd)

\* the input elements reduced into output position q
Contrib(q) == Cell(AllPos(var.shape), node.indices, q)
ViewNode == Clipped(node, call.sel)
BinContrib(q) ==
  LET im == inmap(var.time, ViewNode.outtime)
  IN  {<<im[p[1]], p[2], p[3]>> :
         p \in BinCell(AllPos(<<Len(im), var.shape[2], var.shape[3]>>),
                       outmap(var.time, ViewNode.outtime), q)}

NoNaN(v) == \A p \in AllPos(v.shape) : IsNum(v.values[p])

Reduced == call.func \notin TimeFuncs

(***************************************************************************)
(* C1: for every reduction kind of reduce.py and for the time-binned Mean, *)
(* the finalized result does not depend on how the region was cut into     *)
(* chunks nor on their order: whatever chunks the loop consumed, the       *)
(* result is the one obtained with the whole region as a single chunk.     *)
(***************************************************************************)
C1_ChunkingInvariant ==
  /\ (Reduced /\ pc = "done") =>
        /\ ~OneChunk(node, var).err
        /\ result = OneChunk(node, var).out
  /\ (call.func \in MeanFuncs /\ pc = "done") => result = MeanOneChunk(ViewNode, var)

\* a weighted NaN-aware mean finished after three or more chunks
C1_Witness ==
  /\ pc = "done"
  /\ Reduced
  /\ node.cls = "WeightedNANMeanVar"
  /\ nchunks >= 3
  /\ \E q \in DOMAIN result : IsNum(result[q]) /\ result[q].n # 0
  /\ \E p \in AllPos(var.shape) : IsNaN(var.values[p])

(***************************************************************************)
(* C2: NANSumVar and NANMeanVar return NaN (not zero) at every output      *)
(* position all of whose contributing input elements are NaN, and at every *)
(* output position that received no contribution at all.                   *)
(***************************************************************************)
C2_AllNaNGivesNaN ==
  (Reduced /\ pc = "done" /\ node.cls \in {"NANSumVar", "NANMeanVar"}) =>
     \A q \in DOMAIN result :
       (\A p \in Contrib(q) : IsNaN(var.values[p])) => IsNaN(result[q])

\* a NaN-aware mean, finished in two or more chunks, with one output position
\* fed by NaN only and another one fed by numbers
C2_Witness ==
  /\ pc = "done"
  /\ Reduced
  /\ node.cls = "NANMeanVar"
  /\ nchunks >= 2
  /\ \E q \in DOMAIN result :
       /\ Cardinality(Contrib(q)) >= 2
       /\ \A p \in Contrib(q) : IsNaN(var.values[p])
  /\ \E q \in DOMAIN result : IsNum(result[q])

(***************************************************************************)
(* C3 (as claimed): on input without NaN, nansum called with its arguments *)
(* left at their defaults returns what sum returns for the same arguments, *)
(* and nanmean returns what mean returns.                                  *)
(***************************************************************************)
Twin(func) == IF func = "nansum" THEN "sum" ELSE "mean"

C3_NanTwinsAgree ==
  (Reduced /\ pc = "done" /\ call.func \in {"nansum", "nanmean"}
     /\ call.weights.tag = "absent" /\ NoNaN(var) /\ AllPos(var.shape) # {}) =>
       LET twin == Apply([call EXCEPT !.func = Twin(call.func)], var)
       IN  /\ ~twin.err
           /\ ~OneChunk(twin, var).err
           /\ result = OneChunk(twin, var).out

(***************************************************************************)
(* C4 (as claimed): default weighting follows the docstrings.  Without a   *)
(* weights keyword sum and nansum do not weight; mean and nanmean use the  *)
(* default axis weights; the unweighted class is used exactly when the     *)
(* weights are False, None or a weights variable without axes.             *)
(***************************************************************************)
Unweighted == {"SumVar", "NANSumVar", "MeanVar", "NANMeanVar"}

\* the weights argument in force, by the docstrings' defaults
Documented(c, v) ==
  LET kw == IF c.weights.tag = "absent"
            THEN (IF c.func \in {"sum", "nansum"} THEN Kw("False") ELSE Kw("True"))
            ELSE c.weights
  IN  IF kw.tag = "True" THEN KwVar(getweights(v, c.axes)) ELSE kw

C4_DefaultWeighting ==
  (pc # "call" /\ call.func \in WeightedFuncs) =>
     (node.cls \in Unweighted <=>
        (Documented(call, var).tag \in {"False", "None"}
           \/ Documented(call, var).w.axes = {}))

(***************************************************************************)
(* C5: the mean (MeanVar, and the time-binned Mean) of an array whose      *)
(* every element is the number v equals v at every output position, over   *)
(* any set of reduced axes and for every chunking.                         *)
(***************************************************************************)
Constant(v, x) == AllPos(v.shape) # {} /\ \A p \in AllPos(v.shape) : v.values[p] = x

C5_MeanOfConstant ==
  (pc = "done" /\ (call.func \in MeanFuncs \/ (Reduced /\ node.cls = "MeanVar"))) =>
     \A i \in Vals :
       Constant(var, Num(i)) => \A q \in DOMAIN result : result[q] = Num(i)

\* the mean of an array of -1 over two axes, finished in two or more chunks
C5_Witness ==
  /\ pc = "done"
  /\ Reduced
  /\ node.cls = "MeanVar"
  /\ node.N >= 4
  /\ nchunks >= 2
  /\ Constant(var, Num(-1))
  /\ \A q \in DOMAIN result : result[q] = Num(-1)

(***************************************************************************)
(* C6 (as claimed): VarianceVar returns at every output position the       *)
(* sample variance (N-1 in the denominator) of the N reduced elements; for *)
(* the series 1, 2, 3, 4, 5 it returns 2.5 under every chunking.           *)
(***************************************************************************)
\* the sample variance of the elements at the positions S, exactly
SampleVariance(v, S) ==
  LET n    == Num(Cardinality(S))
      sx   == npsum(v.values, S)
      sx2  == npsum(Squares(v.values), S)
      m    == FDiv(sx, n)
  IN  FDiv(FSub(sx2, FMul(n, FMul(m, m))), FSub(n, Num(1)))

C6_SampleVariance ==
  (Reduced /\ pc = "done" /\ node.cls = "VarianceVar" /\ node.N >= 2 /\ NoNaN(var)) =>
     /\ \A q \in DOMAIN result : result[q] = SampleVariance(var, Contrib(q))
     /\ var.values = Series.values => \A q \in DOMAIN result : result[q] = Rat(5, 2)

(***************************************************************************)
(* C7: SDVar and NANSDVar replace a negative variance by zero before the   *)
(* square root, for scalar and for array results: wherever the variance is *)
(* a number the standard deviation is a number >= 0, and it is 0 where the *)
(* variance is negative.                                                   *)
(***************************************************************************)
NonNegative(r) == r.k = "sqrt" \/ (r.k = "num" /\ r.n >= 0)

\* the variance the standard deviation was taken from
VarianceOf(a, nd) ==
  IF nd.cls = "SDVar" THEN VarianceVar_finish(a, nd) ELSE NANVarianceVar_finish(a, nd).out

C7_ClampedStdev ==
  (Reduced /\ pc = "done" /\ node.cls \in {"SDVar", "NANSDVar"}) =>
     \A q \in DOMAIN result :
       IsNum(VarianceOf(acc, node)[q]) =>
         /\ NonNegative(result[q])
         /\ FLt(VarianceOf(acc, node)[q], Num(0)) => result[q] = Num(0)

\* a standard deviation over an array result, finished in two or more
\* chunks, where the single-pass formula came out negative
C7_Witness ==
  /\ pc = "done"
  /\ Reduced
  /\ node.cls = "SDVar"
  /\ node.indices # AllAxes
  /\ nchunks >= 2
  /\ \E q \in DOMAIN result :
       FLt(VarianceVar_finish(acc, node)[q], Num(0)) /\ result[q] = Num(0)

(***************************************************************************)
(* C8 (as claimed): where the data of an output bin lie exactly on the     *)
(* line x = A*t + B (t the seconds of the input time axis), Trend.getview  *)
(* returns B at coefficient 0 and A at coefficient 1, for every chunking.  *)
(***************************************************************************)
Coefs == Vals \cup {3, 7}

OnLine(q, A, B) ==
  \A p \in BinContrib(q) :
    var.values[p] = FAdd(FMul(Num(A), Num(reltime(var.time)[p[1]])), Num(B))

C8_TrendRecoversLine ==
  (pc = "done" /\ call.func = "climtrend") =>
     \A q \in DOMAIN result : \A A \in Coefs, B \in Coefs :
       OnLine(q, A, B) => result[q] = <<Num(B), Num(A)>>

(***************************************************************************)
(* C9: climtrend over a variable whose time axis has fewer than 2 steps    *)
(* fails at construction: no chunk is ever fetched, no accumulator is      *)
(* created and no coefficient array is returned.                           *)
(***************************************************************************)
C9_TrendNeedsTwoSteps ==
  (call.func \in {"climtrend", "detrend"} /\ var.shape[1] < 2) =>
     /\ pc \in {"call", "error"}
     /\ nchunks = 0
     /\ acc = None
     /\ result = None

\* the construction of climtrend over a single time step has failed
C9_Witness ==
  /\ call.func = "climtrend"
  /\ var.shape[1] = 1
  /\ pc = "error"
  /\ node.err
  /\ result = None

(***************************************************************************)
(* C10 (as claimed): detrend(x, return_clim=True) returns (out, clim) with *)
(* out = x - clim, and out + clim reproduces x at every element.           *)
(***************************************************************************)
C10_DetrendRoundTrip ==
  (pc = "done" /\ call.func = "detrend" /\ NoNaN(var)) =>
     \A p \in AllPos(var.shape) :
       FAdd(result.out[p], result.clim[p]) = var.values[p]

(***************************************************************************)
(* C11: a WeightedMeanVar whose weights are 1 everywhere, defined on a     *)
(* non-empty subset of the reduced axes, returns at every output position  *)
(* what MeanVar returns over the same axes, for every chunking.            *)
(***************************************************************************)
UniformWeights(w) ==
  /\ w.axes # {}
  /\ \A a \in w.axes : \A i \in DOMAIN w.vec[a] : w.vec[a][i] = 1

MeanVarTwin(nd) == [nd EXCEPT !.cls = "MeanVar", !.mweights = ScalarW]

C11_UniformWeightedMean ==
  (pc = "done" /\ Reduced /\ node.cls = "WeightedMeanVar"
     /\ UniformWeights(node.mweights)) =>
     result = OneChunk(MeanVarTwin(node), var).out

\* a weighted mean with weights 1 on axis 1 only, reduced over axes 1 and 2 in
\* at least two chunks (the weights are broadcast along axis 2)
C11_Witness ==
  /\ pc = "done" /\ Reduced
  /\ node.cls = "WeightedMeanVar"
  /\ UniformWeights(node.mweights)
  /\ node.mweights.axes = {1}
  /\ node.indices = {1, 2}
  /\ call.weights.tag = "Var"
  /\ var.shape[1] = 2
  /\ nchunks >= 2
  /\ \E q \in DOMAIN result : IsNum(result[q]) /\ result[q] # Num(0)

(***************************************************************************)
(* C12: a weighted reduction whose weights variable has an axis that is    *)
(* not reduced over fails at construction: no chunk is fetched and no      *)
(* accumulator is created or updated.                                      *)
(***************************************************************************)
ReducedAxes(c) == IF c.axes = {} THEN AllAxes ELSE c.axes

BadWeights(c) ==
  /\ c.func \in WeightedFuncs
  /\ c.weights.tag = "Var"
  /\ c.weights.w.axes # {}
  /\ ~(c.weights.w.axes \subseteq ReducedAxes(c))

C12_WeightsOnReducedAxes ==
  BadWeights(call) =>
     /\ pc \in {"call", "error"}
     /\ nchunks = 0
     /\ acc = None
     /\ result = None
     /\ (pc = "error" => raised = "AssertionError")

C12_Witness ==
  /\ BadWeights(call)
  /\ call.func = "nanmean"
  /\ pc = "error"
  /\ node.cls = "WeightedNANMeanVar"
  /\ raised = "AssertionError"
  /\ AllPos(var.shape) # {}

(***************************************************************************)
(* C13: monthlymean over a time axis without a month field, and dailymean  *)
(* over a time axis without a day field, fail at the construction of the   *)
(* reduced variable: no node with a degenerate time axis is produced and   *)
(* nothing is computed.                                                    *)
(***************************************************************************)
TooCoarse(c, v) ==
  \/ c.func = "monthlymean" /\ "month" \notin v.time.fields
  \/ c.func = "dailymean" /\ "day" \notin v.time.fields

C13_ResolutionAsserted ==
  (call.func \in {"monthlymean", "dailymean"} /\ TooCoarse(call, var)) =>
     /\ pc \in {"call", "error"}
     /\ pc = "error" => (raised = "AssertionError" /\ node.err)
     /\ nchunks = 0
     /\ acc = None
     /\ result = None

\* the monthly mean of yearly data with two or more steps has failed
C13_Witness ==
  /\ call.func = "monthlymean"
  /\ var.time.fields = {"year"}
  /\ Len(var.time.steps) >= 2
  /\ pc = "error"
  /\ raised = "AssertionError"
  /\ "month" \notin node.outtime.fields

(***************************************************************************)
(* C14: in loopover the bin indices the axis mapping produces are exactly  *)
(* the time indices the clipped output view requests, so every requested   *)
(* bin receives at least one input position; a mapping that misses a       *)
(* requested bin is an error raised before any chunk is yielded.           *)
(***************************************************************************)
Range(f) == {f[k] : k \in DOMAIN f}

SetUp == call.func \in TimeFuncs /\ pc \in {"setup", "loop", "loaded", "done"}

C14_MappingCoversView ==
  /\ SetUp =>
       LET view == clip(View(node, call.sel))
       IN  Covered(common_map(var.time, view.ct), view)
  /\ (SetUp /\ pc # "setup") =>
       Range(loop.climview.ind) = 1 .. Cardinality(Requested(node.outtime, call.sel))
  /\ (call.func \in MeanFuncs /\ pc = "done") =>
       \A q \in DOMAIN acc.count : acc.count[q] >= 1
  /\ (call.func \in TimeFuncs /\ raised = "AssertionError") =>
       (nchunks = 0 /\ result = None /\ fetched = None)

\* a climatology of which one of two months is requested, finished in two or
\* more chunks: the other month's input positions are not mapped
C14_Witness ==
  /\ call.func = "climatology" /\ pc = "done"
  /\ ~call.sel.all
  /\ Len(node.outtime.vals) = 2
  /\ Range(loop.climview.ind) = {1}
  /\ Len(loop.inview.ind) >= 2
  /\ Len(loop.inview.ind) < Len(var.time.steps)
  /\ nchunks >= 2

(***************************************************************************)
(* C15: the remapped input view and the remapped climatology view have the *)
(* same shape and the same index of the time axis; loopover checks both    *)
(* before its loop, so a mismatch fails before any accumulator is updated. *)
(***************************************************************************)
C15_ViewsConform ==
  /\ (call.func \in TimeFuncs /\ pc = "setup") =>
       LET s == loopover_setup(var, node, call.sel)
       IN  /\ s.inview.shape = s.climview.shape
           /\ s.inview.ti = s.climview.ti
           /\ ~s.err
  /\ (call.func \in TimeFuncs /\ pc \in {"loop", "loaded", "done"}) =>
       /\ loop.inview.shape = loop.climview.shape
       /\ loop.inview.ti = loop.climview.ti
       /\ Len(loop.inview.ind) = Len(loop.climview.ind)
  /\ (call.func \in TimeFuncs /\ pc = "error" /\ raised = "AssertionError") =>
       nchunks = 0

\* part-way through a loop over views of two or more time steps
C15_Witness ==
  /\ call.func \in TimeFuncs /\ pc = "loop"
  /\ loop.inview.shape[1] >= 2
  /\ loop.inview.shape = loop.climview.shape
  /\ nchunks >= 1 /\ todo # {}

(***************************************************************************)
(* C16: for every chunk loopover yields, the elements materialized at the  *)
(* same time, summed over all the variables of varlist, do not exceed the  *)
(* memory budget.                                                          *)
(***************************************************************************)
C16_BudgetAcrossVarlist ==
  (call.func \in TimeFuncs /\ pc = "loop") =>
    \A chunk \in loop_mem(todo) : Materialized(node, chunk) <= MaxMem

\* what does hold: each single array of a chunk is within the budget
C16_BudgetPerArray ==
  (call.func \in TimeFuncs /\ pc = "loop") =>
    \A chunk \in loop_mem(todo) :
       /\ Cardinality(chunk) <= MaxMem
       /\ Cardinality(TimeExtent(chunk)) <= MaxMem

(***************************************************************************)
(* C17: over one complete pass of loopover the chunks cover the clipped    *)
(* region exactly once: every input position mapped to a requested bin,    *)
(* with every position of the other dimensions, is delivered in exactly    *)
(* one chunk, none twice and none skipped; in each step the vector of bin  *)
(* indices is as long as the chunk's data along the time axis, and the     *)
(* input chunk and the bin chunk come from the same piece of the split.    *)
(***************************************************************************)
\* the input position a position of the input view stands for
InputOf(c) == <<loop.inview.ind[c[1]], c[2], c[3]>>

\* the bin indices that go with one chunk: climv.integer_indices[ti]
BinsOf(chunk) == [i \in TimeExtent(chunk) |-> loop.climview.ind[i]]

\* the time positions of the data of one chunk: inv.get(var)
DataTimes(chunk) == {p[1] : p \in DOMAIN ViewData(var, loop.inview.ind, chunk)}

C17_ExactlyOnce ==
  /\ (call.func \in TimeFuncs /\ pc = "loop") =>
       /\ \A p \in DOMAIN fetched :
            fetched[p] =
              IF \E c \in AllPos(loop.inview.shape) \ todo : InputOf(c) = p
              THEN 1 ELSE 0
       /\ \A chunk \in loop_mem(todo) :
            /\ chunk \subseteq todo
            /\ DOMAIN BinsOf(chunk) = DataTimes(chunk)
            /\ Cardinality(DOMAIN BinsOf(chunk)) = Cardinality(TimeExtent(chunk))
  /\ (call.func \in TimeFuncs /\ pc \in {"loaded", "done"}) =>
       /\ todo = {}
       /\ \A p \in DOMAIN fetched :
            fetched[p] = IF p[1] \in Range(loop.inview.ind) THEN 1 ELSE 0

\* a pass of two or more chunks over a view that leaves some input steps out
C17_Witness ==
  /\ call.func \in TimeFuncs /\ pc = "done"
  /\ nchunks >= 2
  /\ \E p \in DOMAIN fetched : fetched[p] = 1
  /\ \E p \in DOMAIN fetched : fetched[p] = 0
  /\ \A p \in DOMAIN fetched : fetched[p] <= 1

(***************************************************************************)
(* C18: if an error is raised at any point of a reduction (construction,   *)
(* set-up, the fetch of a chunk, the finalize step) the caller receives no *)
(* result array; the accumulators belong to getview and nothing is visible *)
(* to the caller before the finalize step has run.                         *)
(***************************************************************************)
C18_NoPartialResult ==
  /\ pc = "error" => (result = None /\ raised # "")
  /\ pc \in {"call", "getview", "setup", "loop"} => result = None
  /\ raised # "" => (pc = "error" /\ result = None)

\* a fetch fails after chunks have already been accumulated
C18_Witness ==
  /\ pc = "error" /\ raised = "IOError"
  /\ nchunks >= 2
  /\ result = None

(***************************************************************************)
(* C19: whichaxis raises KeyError whenever no axis of the variable matches *)
(* the identifier, for every kind of identifier (a string, an axis, a      *)
(* class, an integer, one outside 0..naxes-1 included); hasaxis returns    *)
(* False in exactly those cases and True otherwise, and never raises;      *)
(* getaxis returns axes[whichaxis(id)]; of several matching axes the one   *)
(* of the lowest index is returned.                                        *)
(***************************************************************************)
\* the indices (from 0) of the axes an identifier matches
Matches(v, id) ==
  {i \in 0 .. Len(v.axes) - 1 :
     \/ id.kind = "str" /\ v.axes[i + 1].name = id.val
     \/ id.kind = "int" /\ id.val = i
     \/ id.kind = "axis" /\ v.axes[i + 1] = id.val
     \/ id.kind = "class" /\ id.val \in {"Axis", v.axes[i + 1].cls}}

Lowest(S) == CHOOSE i \in S : \A j \in S : i <= j

Returned == pc \in {"done", "error"} /\ call.func \in AxisFuncs

LookupContract ==
  LET m == Matches(var, call.iaxis)
  IN  /\ call.func = "whichaxis" =>
           IF m = {} THEN pc = "error" /\ raised = "KeyError"
           ELSE pc = "done" /\ result = <<Lowest(m)>>
      /\ call.func = "hasaxis" =>
           (pc = "done" /\ result = <<m # {}>>)
      /\ call.func = "getaxis" =>
           IF m = {} THEN pc = "error" /\ raised = "KeyError"
           ELSE pc = "done" /\ result = <<var.axes[Lowest(m) + 1]>>

C19_AxisLookup == Returned => LookupContract

\* what does hold: the contract for every identifier but an integer outside
\* 0 .. naxes-1
C19_AxisLookupInRange ==
  (Returned /\ ~(call.iaxis.kind = "int" /\ Matches(var, call.iaxis) = {}))
    => LookupContract

\* and for such an integer all three raise TypeError
C19_OutOfRangeInteger ==
  (Returned /\ call.iaxis.kind = "int" /\ Matches(var, call.iaxis) = {})
    => (pc = "error" /\ raised = "TypeError")

(***************************************************************************)
(* C20: whether a reduction over a non-empty set of axes returns a lazy    *)
(* node or an array computed right away is decided by the call alone,      *)
(* never by whether the input holds its values in memory: the same call on *)
(* an in-memory input and on a lazy input of the same data returns the     *)
(* same kind of object.                                                    *)
(***************************************************************************)
\* the same data, held the other way
OtherWay(v) == [v EXCEPT !.inmem = ~@]

\* the kind of object the call of this state returned
Returned20 == call.axes # {} /\ pc \in {"lazy", "done"}
KindReturned == IF pc = "lazy" THEN "node" ELSE "var"

C20_KindByCallOnly ==
  Returned20 => KindReturned = ReturnKind(Apply(call, OtherWay(var)), OtherWay(var))

\* what does hold: the kind follows the input, a node for a lazy input and
\* the computed variable for an input in memory; with no axes given both
\* inputs give the computed array
C20_KindByMemory ==
  /\ Returned20 => (pc = "lazy" <=> ~InMemory(var))
  /\ (call.axes = {} /\ pc # "call") => pc \in {"done", "error"}
  /\ pc = "lazy" => result = None

(***************************************************************************)
(* C21: from_trend fails at construction when the time axis of the         *)
(* coefficients cannot be mapped to the target time axis; a year field of  *)
(* a single distinct value is dropped with a warning and construction goes *)
(* on, the compatibility being checked on the axis after the drop; exactly *)
(* one of coef and the pair (A, B) must be given, or construction fails.   *)
(***************************************************************************)
ExactlyOneGiven(c) == (c.coef /\ ~c.A /\ ~c.B) \/ (~c.coef /\ c.A /\ c.B)

C21_FromTrendConstruction ==
  pc \in {"done", "error"} =>
    LET degenerate == DegenerateYear(call.coeft)
        checked    == IF degenerate THEN drop_year(call.coeft) ELSE call.coeft
    IN  /\ ~ExactlyOneGiven(call) => (pc = "error" /\ raised = "AssertionError")
        /\ ExactlyOneGiven(call) =>
             /\ node.warned = degenerate
             /\ node.coeft = checked
             /\ degenerate => "year" \notin node.coeft.fields
             /\ pc = "done" <=> map_to(checked, var.time)
             /\ pc = "error" => raised = "AssertionError"

\* a year field of one value was dropped with a warning and the construction
\* succeeded, the coefficients given as the pair (A, B)
C21_Witness ==
  /\ pc = "done"
  /\ ~call.coef /\ call.A /\ call.B
  /\ "year" \in call.coeft.fields
  /\ Len(call.coeft.vals) >= 2
  /\ node.warned
  /\ node.coeft.fields = {"month"}

\* the construction fails on axes of different calendars
C21_WitnessIncompatible ==
  /\ pc = "error" /\ ExactlyOneGiven(call)
  /\ call.coeft.period # var.time.period

(***************************************************************************)
(* C22: a reduction runs strictly sequentially: all variables of chunk i   *)
(* are fetched before any accumulator is updated with chunk i, every       *)
(* accumulator is updated exactly once with chunk i, these updates are     *)
(* complete before any fetch of chunk i+1, the loop ends after finitely    *)
(* many chunks, and the finalize step runs exactly once, after the last    *)
(* chunk and never before.                                                 *)
(***************************************************************************)
Updates(a) == acc.upd[a]

SequentialOrder ==
  LET names == Range(Accumulators(node))
  IN  \* no update with chunk i before all of its variables are fetched
      \* (a chunk is counted when it is yielded, so an accumulator never is
      \* ahead of the chunks yielded)
      /\ pc = "update" => loop.got = Len(varlist(node))
      /\ \A a \in names : Updates(a) <= nchunks
      \* each accumulator once per chunk
      /\ \A a \in names : Updates(a) \in {nchunks - 1, nchunks} /\ Updates(a) >= 0
      /\ pc # "update" => \A a \in names : Updates(a) = nchunks
      \* the updates with chunk i are complete before chunk i+1 is fetched
      /\ pc = "fetch" => (loop.got < Len(varlist(node))
                          /\ \A a \in names : Updates(a) = nchunks)
      \* finalize once, after the last chunk
      /\ acc.fin = IF pc = "done" THEN 1 ELSE 0
      /\ pc \in {"finalize", "done"} =>
            (todo = {} /\ \A a \in names : Updates(a) = nchunks)
      \* every chunk takes at least one element of the region
      /\ nchunks + Cardinality(todo) <= Cardinality(AllPos(var.shape))

C22_StrictlySequential ==
  /\ []SequentialOrder
  /\ <>(pc \in {"done", "error"})

\* a trend over two or more chunks has finished
C22_Witness ==
  /\ pc = "done" /\ node.cls = "climtrend"
  /\ nchunks >= 2
  /\ acc.fin = 1
  /\ \A a \in Range(Accumulators(node)) : Updates(a) = nchunks

(***************************************************************************)
(* C23: in WeightedMeanVar, when the weights are defined on a strict       *)
(* subset of the reduced axes, the denominator accumulated for every       *)
(* output position after all chunks equals the sum of the weights          *)
(* broadcast over all reduced positions; the factor of each chunk,         *)
(* f = indata.size / (inw.size * out[outsl].size), is an exact integer,    *)
(* the number of reduced positions of the chunk along the reduced axes     *)
(* that the weights do not have, for every chunk shape.                    *)
(***************************************************************************)
PartlyWeighted ==
  /\ call.func = "mean" /\ pc \in {"loop", "done"}
  /\ node.cls = "WeightedMeanVar"
  /\ node.mweights.axes # node.indices
  /\ node.mweights.axes \subseteq node.indices

\* the sum of the weights over the input positions reduced into q
BroadcastWeightSum(q) ==
  LET cell == Cell(AllPos(var.shape), node.indices, q)
  IN  npsum([p \in cell |-> WAt(node.mweights, p)], cell)

\* the reduced positions of a chunk along the axes the weights lack, for one
\* position of the weights and one output position
Unweighted23(chunk) ==
  LET p0 == CHOOSE p \in chunk : TRUE
  IN  Cardinality({p \in chunk :
         /\ Proj(p, node.indices) = Proj(p0, node.indices)
         /\ Proj(p, AllAxes \ node.mweights.axes) = Proj(p0, AllAxes \ node.mweights.axes)})

FactorExact ==
  \A lo \in todo, hi \in todo :
    LET chunk == Box(lo, hi)
        den   == Cardinality(InwPos(chunk, node.mweights))
                   * Cardinality(OutSl(chunk, node.indices))
    IN  (chunk # {} /\ chunk \subseteq todo) =>
          /\ Cardinality(chunk) % den = 0
          /\ BroadcastFactor(chunk, node.mweights, node.indices) = Unweighted23(chunk)

C23_WeightedDenominator ==
  PartlyWeighted =>
    /\ pc = "loop" => FactorExact
    /\ pc = "done" => \A q \in DOMAIN acc.W : acc.W[q] = BroadcastWeightSum(q)

\* what does hold: the factor is exact for every dtype, and the denominator
\* is the broadcast sum of the weights for floating data
C23_FloatDenominator ==
  PartlyWeighted =>
    /\ pc = "loop" => FactorExact
    /\ (pc = "done" /\ node.dtype = "float") =>
          \A q \in DOMAIN acc.W : acc.W[q] = BroadcastWeightSum(q)

(***************************************************************************)
(* C24: NANVarianceVar returns, for every output position of an output of  *)
(* any number of dimensions, NaN when at most one contribution to that     *)
(* position is not NaN, and otherwise the sample variance of exactly the   *)
(* contributions that are not NaN; masking one output position never       *)
(* changes the result of another position that has two or more of them.    *)
(***************************************************************************)
\* the contributions to output position q that are not NaN
Valid(q) == {p \in Contrib(q) : ~IsNaN(var.values[p])}

NanVarianceDone == Reduced /\ pc = "done" /\ node.cls = "NANVarianceVar"

C24_NanVariancePerPosition ==
  /\ NanVarianceDone =>
       \A q \in DOMAIN result :
         result[q] = IF Cardinality(Valid(q)) <= 1 THEN NaN
                     ELSE SampleVariance(var, Valid(q))
  /\ (Reduced /\ pc = "error" /\ call.func = "nanvariance") => raised = "AssertionError"

\* what does hold: the positions with at most one valid contribution are
\* NaN, and so is every position that shares its index along the first
\* output dimension with one of them; the others hold the sample variance
C24_NanVariancePerRow ==
  NanVarianceDone =>
    \A q \in DOMAIN result :
      LET row == {r \in DOMAIN result : r[FirstDim(node)] = q[FirstDim(node)]}
      IN  result[q] = IF \E r \in row : Cardinality(Valid(r)) = 1 THEN NaN
                      ELSE IF Cardinality(Valid(q)) = 0 THEN NaN
                      ELSE SampleVariance(var, Valid(q))

(***************************************************************************)
(* C25: the finalize step of the mean returns sum / count as the exact     *)
(* arithmetic mean for every element type of the input, integers           *)
(* included: where the sum of integer inputs is not divisible by the count *)
(* MeanVar and the time-binned Mean return the exact quotient, not an      *)
(* integer cut short.                                                      *)
(***************************************************************************)
\* the exact arithmetic mean of the elements at the positions S
ExactMean(S) == FDiv(npsum(var.values, S), Num(Cardinality(S)))

MeanVarDone == Reduced /\ pc = "done" /\ node.cls = "MeanVar" /\ NoNaN(var)
BinnedMeanDone == call.func \in MeanFuncs /\ pc = "done" /\ NoNaN(var)

C25_ExactMeanAllTypes ==
  /\ MeanVarDone =>
       \A q \in DOMAIN result : Contrib(q) # {} => result[q] = ExactMean(Contrib(q))
  /\ BinnedMeanDone =>
       \A q \in DOMAIN result : BinContrib(q) # {} => result[q] = ExactMean(BinContrib(q))

\* what does hold: the exact mean for floating data, and for integer data
\* the quotient rounded down to an integer
MeanOfType(S) ==
  IF var.dtype = "float" THEN ExactMean(S)
  ELSE Num(FloorDiv(npsum(var.values, S).n, Cardinality(S)))

C25_MeanOfElementType ==
  /\ MeanVarDone =>
       \A q \in DOMAIN result : Contrib(q) # {} => result[q] = MeanOfType(Contrib(q))
  /\ BinnedMeanDone =>
       \A q \in DOMAIN result : BinContrib(q) # {} => result[q] = MeanOfType(BinContrib(q))

(***************************************************************************)
(* C26: whenever Trend.getview returns coefficients, every output bin was  *)
(* fitted from two or more distinct time samples, so that the denominator  *)
(* E[t^2] - E[t]^2 is not zero in any bin: an input that passes the check  *)
(* of the construction (more than one time step in all) never leaves a bin *)
(* with a single time sample, divided by zero in the finalize step.        *)
(***************************************************************************)
TrendReturned ==
  \/ call.func = "climtrend" /\ pc = "done"
  \/ call.func = "detrend" /\ pc \in {"loaded", "done"}

\* the distinct times of the samples fitted in bin q
SampleTimes(q) == {reltime(var.time)[p[1]] : p \in BinContrib(q)}

\* X2 - X**2 after the divisions by the counts
Denominator(q) ==
  LET X  == FDiv(acc.X[q], Num(acc.nX[q]))
      X2 == FDiv(acc.X2[q], Num(acc.nX2[q]))
  IN  FSub(X2, FMul(X, X))

C26_TwoSamplesPerBin ==
  TrendReturned =>
    \A q \in DOMAIN acc.X :
      /\ Cardinality(SampleTimes(q)) >= 2
      /\ Denominator(q) # Num(0)

\* what does hold: the denominator is zero exactly in the bins with a single
\* time sample, and the coefficients of such a bin are not numbers
C26_ZeroForSingleSample ==
  TrendReturned =>
    \A q \in DOMAIN acc.X :
      /\ Cardinality(SampleTimes(q)) >= 1
      /\ Denominator(q) = Num(0) <=> Cardinality(SampleTimes(q)) = 1
      /\ (call.func = "climtrend" /\ Cardinality(SampleTimes(q)) = 1) =>
            (~IsNum(result[q][1]) /\ ~IsNum(result[q][2]))

====
